---- MODULE Spec2Model ----
(***************************************************************************)
(* A model of the econ_grads pipeline: the scraping orchestrator           *)
(* (scraper.py), the text normaliser (normalize.py, cleanup.py), the       *)
(* source parsers (parsers/) and the enrichment adapter (enricher.py).     *)
(*                                                                         *)
(* Python strings are TLA+ strings; the string methods the code uses       *)
(* (lower, strip, in, split, replace) are computed character by character. *)
(* Python's None is the empty string for texts and 0 for years.            *)
(***************************************************************************)
EXTENDS Integers, Sequences, FiniteSets, TLC

VARIABLES
    pc,            \* position of main(): idle, fetch, selenium, lastresort, filter, finish, main, done
    run,           \* number of runs of main() started so far
    force,         \* EconPhDScraper.force of the current run
    state,         \* EconPhDScraper.state['pages']: url -> [hash, last_scraped]
    stateFile,     \* data/scrape_state.json: the persisted 'pages' map
    stateKind,     \* data/scrape_state.json: what kind of content it holds (see load_state)
    hasPages,      \* whether EconPhDScraper.state has the key 'pages'
    csvFile,       \* data/candidates.csv: the saved table (a sequence of records)
    si,            \* index into SCHOOLS of the school being scraped
    ui,            \* index of the current iteration of the loop pc names
    needSel,       \* scrape_school: urls_needing_selenium
    schoolCands,   \* scrape_school: all_candidates
    allCands,      \* scrape_all: all_candidates
    df,            \* the table scrape_all returned
    outcome,       \* of scrape_all in this run: running, returned, raised
    hist,          \* what happened in this run (history of the run, see HistInit)
    erows,         \* enricher.main: the DataFrame df, a sequence of rows
    eout,          \* data/candidates_enriched.csv as written by to_csv; <<>> with eoutExists FALSE
    eoutExists,    \* os.path.exists(output_path)
    epc,           \* position of enricher.main: idle, loop, done
    eidx,          \* index of the row the enrichment loop is at
    eforce,        \* args.force
    ewf,           \* args.enrich_work_focus
    epass,         \* number of enrichment passes started
    ehist,         \* what happened in this enrichment pass (history)
    fn,            \* the function called on its own: none, or its name
    arg,           \* the argument of the call
    out            \* the results of the successive applications of fn, starting from arg

vars == <<pc, run, force, state, stateFile, stateKind, hasPages, csvFile, si, ui,
          needSel, schoolCands, allCands, df, outcome, hist, erows, eout, eoutExists,
          epc, eidx, eforce, ewf, epass, ehist, fn, arg, out>>

scrapeVars == <<pc, run, force, state, stateFile, stateKind, hasPages, csvFile, si,
                ui, needSel, schoolCands, allCands, df, outcome, hist>>

enrichVars == <<erows, eout, eoutExists, epc, eidx, eforce, ewf, epass, ehist>>

callVars == <<fn, arg, out>>

-----------------------------------------------------------------------------
(* Python string methods *)

LowerChar(c) ==
    CASE c = "A" -> "a" [] c = "B" -> "b" [] c = "C" -> "c" [] c = "D" -> "d"
      [] c = "E" -> "e" [] c = "F" -> "f" [] c = "G" -> "g" [] c = "H" -> "h"
      [] c = "I" -> "i" [] c = "J" -> "j" [] c = "K" -> "k" [] c = "L" -> "l"
      [] c = "M" -> "m" [] c = "N" -> "n" [] c = "O" -> "o" [] c = "P" -> "p"
      [] c = "Q" -> "q" [] c = "R" -> "r" [] c = "S" -> "s" [] c = "T" -> "t"
      [] c = "U" -> "u" [] c = "V" -> "v" [] c = "W" -> "w" [] c = "X" -> "x"
      [] c = "Y" -> "y" [] c = "Z" -> "z" [] OTHER -> c

RECURSIVE Lower(_)
\* str.lower()
Lower(s) ==
    IF s = "" THEN "" ELSE LowerChar(SubSeq(s, 1, 1)) \o Lower(SubSeq(s, 2, Len(s)))

RECURSIVE LStrip(_)
LStrip(s) ==
    IF s # "" /\ SubSeq(s, 1, 1) = " " THEN LStrip(SubSeq(s, 2, Len(s))) ELSE s

RECURSIVE RStrip(_)
RStrip(s) ==
    IF s # "" /\ SubSeq(s, Len(s), Len(s)) = " "
    THEN RStrip(SubSeq(s, 1, Len(s) - 1)) ELSE s

\* str.strip()
Strip(s) == RStrip(LStrip(s))

\* t in s
Contains(s, t) ==
    \E i \in 0..(Len(s) - Len(t)) : SubSeq(s, i + 1, i + Len(t)) = t

\* s.find(t) + 1: the 1-based index of the first occurrence of t in s, 0 when absent
Find(s, t) ==
    IF Contains(s, t)
    THEN CHOOSE i \in 1..(Len(s) - Len(t) + 1) :
            /\ SubSeq(s, i, i + Len(t) - 1) = t
            /\ \A j \in 1..(i - 1) : SubSeq(s, j, j + Len(t) - 1) # t
    ELSE 0

RECURSIVE Replace(_, _, _)
\* s.replace(old, new), old not empty
Replace(s, old, new) ==
    LET i == Find(s, old) IN
    IF i = 0 THEN s
    ELSE SubSeq(s, 1, i - 1) \o new \o Replace(SubSeq(s, i + Len(old), Len(s)), old, new)

RECURSIVE Split(_, _)
\* s.split(sep): the sequence of the parts
Split(s, sep) ==
    LET i == Find(s, sep) IN
    IF i = 0 THEN <<s>>
    ELSE <<SubSeq(s, 1, i - 1)>> \o Split(SubSeq(s, i + Len(sep), Len(s)), sep)

\* s.split(sep, 1): at most two parts
Split1(s, sep) ==
    LET i == Find(s, sep) IN
    IF i = 0 THEN <<s>>
    ELSE <<SubSeq(s, 1, i - 1), SubSeq(s, i + Len(sep), Len(s))>>

IsDigit(c) == c \in {"0", "1", "2", "3", "4", "5", "6", "7", "8", "9"}

DigitVal(c) ==
    CASE c = "0" -> 0 [] c = "1" -> 1 [] c = "2" -> 2 [] c = "3" -> 3 [] c = "4" -> 4
      [] c = "5" -> 5 [] c = "6" -> 6 [] c = "7" -> 7 [] c = "8" -> 8 [] c = "9" -> 9

RECURSIVE ConcatAll(_)
\* ''.join(texts): the get_text() of an element with these text nodes
ConcatAll(ss) == IF ss = <<>> THEN "" ELSE Head(ss) \o ConcatAll(Tail(ss))

RECURSIVE FlattenSeq(_)
FlattenSeq(ss) == IF ss = <<>> THEN <<>> ELSE Head(ss) \o FlattenSeq(Tail(ss))

RECURSIVE SelectRecs(_, _)
\* [c for c in cs if c in keep]
SelectRecs(cs, keep) ==
    IF cs = <<>> THEN <<>>
    ELSE (IF Head(cs) \in keep THEN <<Head(cs)>> ELSE <<>>) \o SelectRecs(Tail(cs), keep)

Range(f) == {f[i] : i \in DOMAIN f}

-----------------------------------------------------------------------------
(* normalize.py *)

\* COMPANY_ALIASES in its insertion order, which is the order normalize_company scans
COMPANY_ALIASES == <<
    [canonical |-> "Meta", aliases |-> <<"facebook", "meta", "meta platforms", "fb", "facebook inc">>],
    [canonical |-> "X", aliases |-> <<"twitter", "x corp", "x.com">>],
    [canonical |-> "Block", aliases |-> <<"square", "block", "block inc", "square inc", "cash app">>],
    [canonical |-> "Amazon", aliases |-> <<"amazon", "amazon pharmacy", "economist, amazon", "amazon.com", "aws">>],
    [canonical |-> "Google", aliases |-> <<"google", "alphabet", "youtube", "waymo", "verily">>],
    [canonical |-> "Microsoft", aliases |-> <<"microsoft", "microsoft post-doc">>],
    [canonical |-> "Uber", aliases |-> <<"uber", "uber eats", "uber technologies", "uber freight">>],
    [canonical |-> "Airbnb", aliases |-> <<"airbnb", "data scientist, airbnb">>],
    [canonical |-> "Instacart", aliases |-> <<"instacart economist", "instacart">>],
    [canonical |-> "Two Sigma", aliases |-> <<"two sigma", "twosigma", "2sigma">>],
    [canonical |-> "D.E. Shaw", aliases |-> <<"de shaw", "d.e. shaw", "deshaw", "d. e. shaw">>],
    [canonical |-> "Jane Street", aliases |-> <<"jane street", "janestreet">>],
    [canonical |-> "Citadel", aliases |-> <<"citadel", "citadel securities", "citadel llc">>],
    [canonical |-> "OpenAI", aliases |-> <<"openai", "open ai">>],
    [canonical |-> "DeepMind", aliases |-> <<"deepmind", "deep mind">>],
    [canonical |-> "Scale AI", aliases |-> <<"scale ai", "scale.ai", "scaleai">>],
    [canonical |-> "Navan", aliases |-> <<"navan", "tripactions">>],
    [canonical |-> "Booking", aliases |-> <<"booking", "booking.com", "priceline">>] >>

ACADEMIA_KEYWORDS == {
    "university", "college", "professor", "faculty",
    "postdoc", "instructor", "phd", "academic",
    "research fellow", "lecturer", "assistant prof",
    "associate prof", "visiting scholar", "fellow at",
    "institute for", "school of", "department of" }

\* normalize_company returning the alias it matched instead of the canonical name
\* (defined to be compared with normalize_company)
normalize_company_returns_alias(name) ==
    IF name = "" THEN name
    ELSE LET name_lower == Strip(Lower(name))
             hits == {ka \in {<<k, a>> : k \in DOMAIN COMPANY_ALIASES, a \in 1..5} :
                         /\ ka[2] <= Len(COMPANY_ALIASES[ka[1]].aliases)
                         /\ Contains(name_lower, COMPANY_ALIASES[ka[1]].aliases[ka[2]])}
             first == CHOOSE h \in hits : \A g \in hits :
                         h[1] < g[1] \/ (h[1] = g[1] /\ h[2] <= g[2])
         IN  IF hits # {}
             THEN COMPANY_ALIASES[first[1]].aliases[first[2]]
             ELSE Strip(name)

\* normalize_company(name) for a string name ("" stands for None/NaN too: returned as is)
normalize_company(name) ==
    IF name = "" THEN name
    ELSE LET name_lower == Strip(Lower(name))
             hits == {k \in DOMAIN COMPANY_ALIASES :
                         \E a \in Range(COMPANY_ALIASES[k].aliases) : Contains(name_lower, a)}
         IN  IF hits # {}
             THEN COMPANY_ALIASES[CHOOSE k \in hits : \A j \in hits : k <= j].canonical
             ELSE Strip(name)

\* is_academia(text)
is_academia(text) ==
    LET text_lower == Lower(text) IN
    /\ text # ""
    /\ \E kw \in ACADEMIA_KEYWORDS : Contains(text_lower, kw)

\* standardize_current_placement without the academia test of lines 87-88 (defined to
\* be compared with standardize_current_placement)
standardize_without_academia(current_company) ==
    IF current_company = "" THEN current_company
    ELSE normalize_company(current_company)

\* standardize_current_placement(current_company)
standardize_current_placement(current_company) ==
    IF current_company = "" THEN current_company
    ELSE IF is_academia(current_company) THEN "Academia"
    ELSE normalize_company(current_company)

-----------------------------------------------------------------------------
(* cleanup.py *)

\* re.match(r'^\d{4}$', name_str)
IsFourDigits(s) == Len(s) = 4 /\ \A i \in 1..4 : IsDigit(SubSeq(s, i, i))

\* cleanup.is_valid_name(name)
is_valid_name(name) ==
    LET name_str == Strip(name) IN
    /\ name # ""
    /\ ~IsFourDigits(name_str)
    /\ Len(name_str) >= 3
    /\ ~\E g \in {"click", "website", "building", "campus", "phone", "@"} :
            Contains(Lower(name_str), g)

-----------------------------------------------------------------------------
(* scraper.py: classification and year extraction *)

\* scraper.TECH_COMPANIES
TECH_COMPANIES == {
    "google", "meta", "facebook", "amazon", "apple", "microsoft", "netflix", "uber",
    "lyft", "airbnb", "stripe", "doordash", "instacart", "dropbox", "slack", "zoom",
    "spotify", "pinterest", "snap", "snapchat", "twitter", "x corp", "tiktok",
    "bytedance", "reddit", "discord", "nextdoor", "thumbtack", "turo", "openai",
    "anthropic", "deepmind", "cohere", "stability ai", "midjourney", "hugging face",
    "scale ai", "databricks", "perplexity", "xai", "groq", "codeium", "cursor",
    "anysphere", "writer", "elevenlabs", "harvey", "cognition", "character ai",
    "inflection", "robinhood", "coinbase", "plaid", "square", "block", "affirm", "chime",
    "sofi", "brex", "ripple", "kraken", "toast", "marqeta", "klarna", "revolut",
    "salesforce", "oracle", "sap", "vmware", "snowflake", "palantir", "servicenow",
    "workday", "splunk", "crowdstrike", "datadog", "deel", "remote", "rippling", "gusto",
    "qualtrics", "amplitude", "shopify", "ebay", "wayfair", "etsy", "walmart labs",
    "flexport", "faire", "nvidia", "intel", "amd", "qualcomm", "tesla", "spacex",
    "zillow", "redfin", "opendoor", "compass", "houzz", "corelogic", "realtor.com",
    "booking", "expedia", "tripadvisor", "navan", "tripactions", "hopper", "kayak",
    "linkedin", "indeed", "glassdoor", "yelp", "doximity", "veeva", "twilio", "okta",
    "cloudflare", "mongodb", "elastic", "asana", "notion", "figma", "canva", "airtable",
    "grammarly", "duolingo", "coursera", "udemy", "pandora", "roblox", "epic games",
    "unity", "activision", "electronic arts", "adobe" }

\* the garbage / contact-info test of EconPhDScraper.is_tech_placement
IsGarbagePlacement(placement) ==
    LET placement_lower == Lower(placement) IN
    \/ Contains(placement, "@")
    \/ Contains(placement_lower, "phone")
    \/ Contains(placement_lower, "campus map")
    \/ Contains(placement_lower, "connect with us")
    \/ Contains(placement_lower, "econ[at]")

\* EconPhDScraper.is_tech_placement(placement)
is_tech_placement(placement) ==
    LET placement_lower == Lower(placement) IN
    /\ placement # ""
    /\ ~is_academia(placement)
    /\ ~IsGarbagePlacement(placement)
    /\ \E company \in TECH_COMPANIES : Contains(placement_lower, company)

\* EconPhDScraper.extract_year(text): the first match of 20(2[0-5]), 0 for None
extract_year(text) ==
    LET IsMatch(i) == /\ SubSeq(text, i, i + 2) = "202"
                      /\ SubSeq(text, i + 3, i + 3) \in {"0", "1", "2", "3", "4", "5"}
        at == {i \in 1..(Len(text) - 3) : IsMatch(i)}
    IN  IF at = {} THEN 0
        ELSE LET first == CHOOSE i \in at : \A j \in at : i <= j
             IN  2020 + DigitVal(SubSeq(text, first + 3, first + 3))

-----------------------------------------------------------------------------
(* Documents.  A fetched page is what the parsers' selectors find in it:     *)
(*   tables : soup.select('table'), each table the sequence of its tr rows,  *)
(*            each row the sequence of the texts of its cells;               *)
(*   cards  : the card containers, each with the text of its name element    *)
(*            ("" when it has none), of its placement and fields elements    *)
(*            and of the whole card;                                         *)
(*   elems  : the texts of soup.select('h2, h3, h4, li, p');                 *)
(*   items  : the texts of the placement list items;                         *)
(*   dls    : soup.select('dl'), each the sequence of its (dt, dd) pairs.    *)

\* datetime.now().year
NowYear == 2026

\* the candidate dict every parser builds
Cand(name, school, year, fields, placement) ==
    [name |-> name, school |-> school, graduation_year |-> year,
     research_fields |-> fields, initial_placement |-> placement,
     initial_role |-> "", current_placement |-> "", current_role |-> "",
     linkedin_url |-> ""]

\* row.get_text()
RowText(row) == ConcatAll(row)

\* one data row of EconPhDScraper._parse_tables: <<candidate>> or <<>>
parse_tables_row(cells, school) ==
    IF Len(cells) < 2 THEN <<>>
    ELSE LET name == Strip(cells[1])
             fields == IF Len(cells) >= 3 THEN Strip(cells[2]) ELSE ""
             placement == IF Len(cells) >= 3 THEN Strip(cells[3]) ELSE Strip(cells[2])
             year == extract_year(RowText(cells))
             name_lower == Lower(name)
         IN  IF name_lower \in {"candidate", "name", "student", "phd"} THEN <<>>
             ELSE IF Contains(name_lower, "click on") \/ Contains(name_lower, "website") THEN <<>>
             ELSE IF Contains(name_lower, "building") \/ Contains(name_lower, "stanford way") THEN <<>>
             ELSE IF name # "" /\ Len(name) > 2 /\ Len(name) < 100
                     /\ (year = 0 \/ (2020 <= year /\ year <= 2025))
                  THEN <<Cand(name, school, IF year # 0 THEN year ELSE NowYear, fields, placement)>>
                  ELSE <<>>

\* EconPhDScraper._parse_tables(soup, school)
parse_tables(doc, school) ==
    FlattenSeq([t \in 1..Len(doc.tables) |->
        FlattenSeq([r \in 1..(Len(doc.tables[t]) - 1) |->
            parse_tables_row(doc.tables[t][r + 1], school)])])

garbage_markers == {"click on", "building", "stanford way", "website",
                    "campus map", "connect with", "phone", "email"}

RECURSIVE parse_cards_from(_, _, _, _)
\* the loop of EconPhDScraper._parse_cards from card i on, seen_names = seen
parse_cards_from(cards, i, seen, school) ==
    IF i > Len(cards) THEN <<>>
    ELSE LET card == cards[i]
             name == Strip(card.name)
             year == extract_year(card.text)
         IN  IF name = "" \/ Len(name) < 3 \/ Len(name) > 100
             THEN parse_cards_from(cards, i + 1, seen, school)
             ELSE IF \E marker \in garbage_markers : Contains(Lower(name), marker)
             THEN parse_cards_from(cards, i + 1, seen, school)
             ELSE IF Lower(name) \in seen
             THEN parse_cards_from(cards, i + 1, seen, school)
             ELSE IF year # 0 /\ (year < 2020 \/ year > 2025)
             THEN parse_cards_from(cards, i + 1, seen \cup {Lower(name)}, school)
             ELSE <<Cand(name, school, IF year # 0 THEN year ELSE NowYear,
                         Strip(card.fields), Strip(card.placement))>>
                  \o parse_cards_from(cards, i + 1, seen \cup {Lower(name)}, school)

\* EconPhDScraper._parse_cards(soup, school)
parse_cards(doc, school) == parse_cards_from(doc.cards, 1, {}, school)

\* the separator loop of _parse_year_lists on one line: <<candidate>> or <<>>
year_list_line(text, current_year, school) ==
    LET seps == <<" - ", ": ", ", ">>
        found == {k \in 1..3 : Contains(text, seps[k])}
    IN  IF found = {} THEN <<>>
        ELSE LET sep == seps[CHOOSE k \in found : \A j \in found : k <= j]
                 parts == Split1(text, sep)
             IN  IF Len(parts) >= 2 /\ Len(parts[1]) > 2 /\ Len(parts[1]) < 100
                 THEN <<Cand(Strip(parts[1]), school, current_year, "", Strip(parts[2]))>>
                 ELSE <<>>

RECURSIVE parse_year_lists_from(_, _, _, _)
\* the loop of EconPhDScraper._parse_year_lists from element i on
parse_year_lists_from(elems, i, current_year, school) ==
    IF i > Len(elems) THEN <<>>
    ELSE LET text == Strip(elems[i])
             year == extract_year(text)
         IN  IF year # 0 /\ Len(text) < 20
             THEN parse_year_lists_from(elems, i + 1, year, school)
             ELSE (IF current_year # 0 /\ 2020 <= current_year /\ current_year <= 2025
                   THEN year_list_line(text, current_year, school) ELSE <<>>)
                  \o parse_year_lists_from(elems, i + 1, current_year, school)

\* EconPhDScraper._parse_year_lists(soup, school)
parse_year_lists(doc, school) == parse_year_lists_from(doc.elems, 1, 0, school)

\* the generic strategies of EconPhDScraper.parse_page, lines 432-442
generic_parse(doc, school) ==
    parse_tables(doc, school) \o parse_cards(doc, school) \o parse_year_lists(doc, school)

-----------------------------------------------------------------------------
(* parsers/base.py and parsers/harvard.py *)

\* SchoolParser.create_candidate(name, placement, year, fields) of HarvardParser
create_candidate(name, placement, year, fields) ==
    Cand(Strip(name), "Harvard", IF year # 0 THEN year ELSE 2024, Strip(fields),
         Strip(placement))

\* _find_col finding no column (defined to be compared with find_col)
find_col_none(headers, keywords) == 0

\* HarvardParser._find_col(headers, keywords): the 0-based index of the first header
\* cell holding a keyword, 0 when there is none
find_col(headers, keywords) ==
    LET hit == {i \in 1..Len(headers) : \E kw \in keywords : Contains(headers[i], kw)}
    IN  IF hit = {} THEN 0 ELSE (CHOOSE i \in hit : \A j \in hit : i <= j) - 1

\* one data row of HarvardParser._parse_table: <<candidate>> or <<>>
Harvard_parse_table_row(cells, headers) ==
    LET name_col == find_col(headers, {"name", "student", "candidate"})
        placement_col == find_col(headers, {"placement", "employer", "position", "job", "company"})
        year_col == find_col(headers, {"year", "class", "cohort"})
        fields_col == find_col(headers, {"field", "research", "area", "interest"})
    IN  IF Len(cells) < 2 THEN <<>>
        ELSE LET name == IF name_col < Len(cells) THEN Strip(cells[name_col + 1])
                         ELSE Strip(cells[1])
                 placement == IF placement_col < Len(cells) THEN Strip(cells[placement_col + 1])
                              ELSE Strip(cells[Len(cells)])
                 fields == IF fields_col < Len(cells) THEN Strip(cells[fields_col + 1]) ELSE ""
                 year_cell == IF year_col < Len(cells) THEN extract_year(cells[year_col + 1])
                              ELSE 0
                 year == IF year_cell # 0 THEN year_cell ELSE extract_year(RowText(cells))
             IN  IF name = "" \/ Len(name) < 3 \/ Len(name) > 100 THEN <<>>
                 ELSE IF Lower(name) \in {"name", "candidate", "student", ""} THEN <<>>
                 ELSE <<create_candidate(name, placement, year, fields)>>

\* HarvardParser._parse_table(table)
Harvard_parse_table(table) ==
    LET headers == IF Len(table) > 0
                   THEN [i \in 1..Len(table[1]) |-> Lower(Strip(table[1][i]))]
                   ELSE <<>>
    IN  FlattenSeq([r \in 1..(Len(table) - 1) |->
                       Harvard_parse_table_row(table[r + 1], headers)])

\* HarvardParser._parse_card(card): <<candidate>> or <<>> (None)
Harvard_parse_card(card) ==
    LET name == Strip(card.name)
        skip_words == {"harvard", "economics", "department", "placement", "contact", "about"}
    IN  IF name = "" \/ Len(name) < 3 \/ Len(name) > 100 THEN <<>>
        ELSE IF \E w \in skip_words : Contains(Lower(name), w) THEN <<>>
        ELSE <<create_candidate(name, Strip(card.placement), extract_year(card.text),
                                Strip(card.fields))>>

\* HarvardParser._parse_list_item(item): <<candidate>> or <<>> (None)
Harvard_parse_list_item(item) ==
    LET text == Strip(item)
        parts == Split(Replace(text, " - ", ", "), ",")
        name == Strip(parts[1])
    IN  IF text = "" \/ Len(text) < 5 THEN <<>>
        ELSE IF name = "" \/ Len(name) < 3 \/ Len(name) > 100 THEN <<>>
        ELSE <<create_candidate(name, IF Len(parts) > 1 THEN Strip(parts[2]) ELSE "",
                                extract_year(text), "")>>

\* HarvardParser._parse_definition_list(dl)
Harvard_parse_definition_list(dl) ==
    FlattenSeq([k \in 1..Len(dl) |->
        LET name == Strip(dl[k].dt)
            placement == Strip(dl[k].dd)
        IN  IF name # "" /\ Len(name) >= 3 /\ Len(name) <= 100
            THEN <<create_candidate(name, placement, extract_year(dl[k].dd), "")>>
            ELSE <<>>])

RECURSIVE first_by_name(_, _)
\* the seen_names filter of HarvardParser.parse: keep a candidate unless its lowercased
\* name was seen before; returns the kept candidates
first_by_name(cs, seen) ==
    IF cs = <<>> THEN <<>>
    ELSE IF Lower(Head(cs).name) \in seen THEN first_by_name(Tail(cs), seen)
    ELSE <<Head(cs)>> \o first_by_name(Tail(cs), seen \cup {Lower(Head(cs).name)})

\* HarvardParser.parse(soup): the four strategies in order, one seen_names over all
Harvard_parse(doc) ==
    first_by_name(
        FlattenSeq([t \in 1..Len(doc.tables) |-> Harvard_parse_table(doc.tables[t])])
        \o FlattenSeq([c \in 1..Len(doc.cards) |-> Harvard_parse_card(doc.cards[c])])
        \o FlattenSeq([k \in 1..Len(doc.items) |-> Harvard_parse_list_item(doc.items[k])])
        \o FlattenSeq([d \in 1..Len(doc.dls) |-> Harvard_parse_definition_list(doc.dls[d])]),
        {})

-----------------------------------------------------------------------------
(* parsers/yale.py: the table strategy *)

\* the branch of the if/elif chain of YaleParser._parse_table (72-79) a header takes
Yale_header_kind(h) ==
    IF Contains(h, "name") \/ Contains(h, "student") \/ Contains(h, "candidate") THEN "name"
    ELSE IF Contains(h, "placement") \/ Contains(h, "employer") \/ Contains(h, "position")
    THEN "placement"
    ELSE IF Contains(h, "year") \/ Contains(h, "cohort") THEN "year"
    ELSE IF Contains(h, "field") \/ Contains(h, "research") \/ Contains(h, "area") THEN "fields"
    ELSE "none"

\* the 0-based index the loop of lines 71-79 leaves for a kind: that of the last header
\* of the kind, or the initial value
Yale_col(headers, kind, initial) ==
    LET hit == {i \in 1..Len(headers) : Yale_header_kind(headers[i]) = kind}
    IN  IF hit = {} THEN initial ELSE (CHOOSE i \in hit : \A j \in hit : i >= j) - 1

\* one data row of YaleParser._parse_table: <<candidate>> or <<>>
Yale_parse_table_row(cells, headers) ==
    LET name_col == Yale_col(headers, "name", 0)
        found == Yale_col(headers, "placement", -1)
        placement_col == IF found < 0 /\ Len(headers) > 1 THEN Len(headers) - 1 ELSE found
        year_col == Yale_col(headers, "year", -1)
        fields_col == Yale_col(headers, "fields", -1)
    IN  IF Len(cells) < 2 THEN <<>>
        ELSE LET name == IF name_col < Len(cells) THEN Strip(cells[name_col + 1]) ELSE ""
                 placement == IF 0 <= placement_col /\ placement_col < Len(cells)
                              THEN Strip(cells[placement_col + 1]) ELSE ""
                 fields == IF 0 <= fields_col /\ fields_col < Len(cells)
                           THEN Strip(cells[fields_col + 1]) ELSE ""
                 year_cell == IF 0 <= year_col /\ year_col < Len(cells)
                              THEN extract_year(cells[year_col + 1]) ELSE 0
                 year == IF year_cell # 0 THEN year_cell ELSE extract_year(RowText(cells))
             IN  IF name = "" \/ Len(name) < 3 \/ Len(name) > 100 THEN <<>>
                 ELSE IF Lower(name) \in {"name", "candidate", "student", ""} THEN <<>>
                 ELSE <<[create_candidate(name, placement, year, fields)
                            EXCEPT !.school = "Yale"]>>

\* YaleParser._parse_table(table)
Yale_parse_table(table) ==
    LET headers == IF Len(table) > 0
                   THEN [i \in 1..Len(table[1]) |-> Lower(Strip(table[1][i]))]
                   ELSE <<>>
    IN  FlattenSeq([r \in 1..(Len(table) - 1) |->
                       Yale_parse_table_row(table[r + 1], headers)])

-----------------------------------------------------------------------------
(* parsers/nyu.py.  The pages of the model hold no accordion section        *)
(* ('.accordion-item, .expandable, .panel, .card'), so strategy 1 of        *)
(* NYUParser.parse finds nothing; their cards are article elements, which   *)
(* strategy 2 selects; their texts hold no en dash, the third separator of  *)
(* strategy 4.                                                              *)

\* SchoolParser.create_candidate of NYUParser
NYU_create_candidate(name, placement, year) ==
    [create_candidate(name, placement, year, "") EXCEPT !.school = "NYU"]

\* strategy 2 of NYUParser.parse on one card: <<candidate>> or <<>>
NYU_parse_card(card) ==
    LET name == Strip(card.name)
    IN  IF name = "" \/ Len(name) < 3 \/ Len(name) > 100 THEN <<>>
        ELSE IF \E skip \in {"menu", "search", "home", "back"} : Contains(Lower(name), skip)
        THEN <<>>
        ELSE <<NYU_create_candidate(name, Strip(card.placement), extract_year(card.text))>>

\* strategy 3 of NYUParser.parse on one data row: <<candidate>> or <<>>
NYU_parse_table_row(cells) ==
    IF Len(cells) < 2 THEN <<>>
    ELSE LET name == Strip(cells[1])
             placement == Strip(cells[Len(cells)])
         IN  IF Lower(name) \in {"name", "student", "candidate", "year"} THEN <<>>
             ELSE IF Len(name) > 2 /\ Len(name) < 100
             THEN <<NYU_create_candidate(name, placement, extract_year(RowText(cells)))>>
             ELSE <<>>

\* the separator loop of strategy 4 on one line: <<candidate>> or <<>>
NYU_list_line(text, current_year) ==
    LET seps == <<" - ", ": ">>
        found == {k \in 1..2 : Contains(text, seps[k])}
    IN  IF found = {} THEN <<>>
        ELSE LET sep == seps[CHOOSE k \in found : \A j \in found : k <= j]
                 parts == Split1(text, sep)
             IN  IF Len(parts) = 2 /\ Len(parts[1]) > 2 /\ Len(parts[1]) < 80
                 THEN <<NYU_create_candidate(parts[1], parts[2], current_year)>>
                 ELSE <<>>

RECURSIVE NYU_year_lists_from(_, _, _)
\* the loop of strategy 4 from element i on
NYU_year_lists_from(elems, i, current_year) ==
    IF i > Len(elems) THEN <<>>
    ELSE LET text == Strip(elems[i])
             year_match == extract_year(text)
         IN  IF year_match # 0 /\ Len(text) < 20
             THEN NYU_year_lists_from(elems, i + 1, year_match)
             ELSE (IF current_year # 0 /\ 2020 <= current_year /\ current_year <= 2025
                   THEN NYU_list_line(text, current_year) ELSE <<>>)
                  \o NYU_year_lists_from(elems, i + 1, current_year)

\* NYUParser.parse(soup): every strategy appends to the one list
NYU_parse(doc) ==
    FlattenSeq([c \in 1..Len(doc.cards) |-> NYU_parse_card(doc.cards[c])])
    \o FlattenSeq([t \in 1..Len(doc.tables) |->
           FlattenSeq([r \in 1..(Len(doc.tables[t]) - 1) |->
               NYU_parse_table_row(doc.tables[t][r + 1])])])
    \o NYU_year_lists_from(doc.elems, 1, 0)

-----------------------------------------------------------------------------
(* pdf_parser.py: the free-text strategy.  A text is the sequence of its     *)
(* lines (text.split('\n')); the texts of the model hold no en or em dash.  *)

\* str.upper of one character
UpperChar(c) ==
    CASE c = "a" -> "A" [] c = "b" -> "B" [] c = "c" -> "C" [] c = "d" -> "D"
      [] c = "e" -> "E" [] c = "f" -> "F" [] c = "g" -> "G" [] c = "h" -> "H"
      [] c = "i" -> "I" [] c = "j" -> "J" [] c = "k" -> "K" [] c = "l" -> "L"
      [] c = "m" -> "M" [] c = "n" -> "N" [] c = "o" -> "O" [] c = "p" -> "P"
      [] c = "q" -> "Q" [] c = "r" -> "R" [] c = "s" -> "S" [] c = "t" -> "T"
      [] c = "u" -> "U" [] c = "v" -> "V" [] c = "w" -> "W" [] c = "x" -> "X"
      [] c = "y" -> "Y" [] c = "z" -> "Z" [] OTHER -> c

\* c.isupper() / c.islower() of one character
IsUpperChar(c) == LowerChar(c) # c
IsLowerChar(c) == UpperChar(c) # c

\* word.islower(): a cased character and none of them uppercase
IsLowerWord(w) ==
    /\ \E i \in 1..Len(w) : IsLowerChar(SubSeq(w, i, i))
    /\ \A i \in 1..Len(w) : ~IsUpperChar(SubSeq(w, i, i))

\* str.title(): a letter after a non-letter uppercased, every other letter lowercased
Title(s) ==
    LET IsLetter(c) == IsUpperChar(c) \/ IsLowerChar(c)
        ch(i) == IF i = 1 \/ ~IsLetter(SubSeq(s, i - 1, i - 1))
                 THEN UpperChar(SubSeq(s, i, i)) ELSE LowerChar(SubSeq(s, i, i))
    IN  ConcatAll([i \in 1..Len(s) |-> ch(i)])

\* s.startswith(prefix)
StartsWith(s, prefix) == Len(s) >= Len(prefix) /\ SubSeq(s, 1, Len(prefix)) = prefix

\* line.split(): the words between runs of spaces
Words(line) == SelectSeq(Split(line, " "), LAMBDA w : w # "")

RECURSIVE Join(_, _)
\* sep.join(words)
Join(words, sep) ==
    IF words = <<>> THEN ""
    ELSE IF Len(words) = 1 THEN words[1]
    ELSE words[1] \o sep \o Join(Tail(words), sep)

\* PDFPlacementParser.TECH_COMPANIES
PDF_TECH_COMPANIES == {
    "google", "meta", "facebook", "amazon", "apple", "microsoft", "netflix",
    "uber", "lyft", "airbnb", "stripe", "doordash", "instacart", "dropbox",
    "slack", "zoom", "spotify", "pinterest", "snap", "twitter", "x corp",
    "tiktok", "bytedance", "reddit", "discord", "nextdoor", "thumbtack", "turo",
    "openai", "anthropic", "deepmind", "cohere", "scale ai", "databricks",
    "perplexity", "xai", "groq", "codeium", "cursor", "anysphere",
    "robinhood", "coinbase", "plaid", "square", "block", "affirm", "chime",
    "sofi", "brex", "toast", "marqeta", "klarna", "revolut",
    "two sigma", "jane street", "citadel", "de shaw", "renaissance", "aqr",
    "point72", "bridgewater", "millennium", "squarepoint", "rokos",
    "salesforce", "oracle", "snowflake", "palantir", "servicenow", "workday",
    "splunk", "crowdstrike", "datadog", "deel", "rippling", "gusto",
    "shopify", "ebay", "wayfair", "etsy", "walmart", "flexport", "faire",
    "nvidia", "intel", "amd", "qualcomm", "tesla", "spacex",
    "zillow", "redfin", "opendoor", "compass", "houzz",
    "booking", "expedia", "tripadvisor", "navan", "hopper", "kayak",
    "linkedin", "indeed", "glassdoor", "yelp", "doximity", "veeva",
    "twilio", "okta", "cloudflare", "mongodb", "elastic",
    "asana", "notion", "figma", "canva", "airtable",
    "grammarly", "duolingo", "coursera", "udemy", "pandora", "adobe" }

\* PDFPlacementParser._extract_year(text): the first match of 20(1[5-9]|2[0-5]),
\* 0 for None
PDF_extract_year(text) ==
    LET IsMatch(i) ==
            /\ SubSeq(text, i, i + 1) = "20"
            /\ \/ /\ SubSeq(text, i + 2, i + 2) = "1"
                  /\ SubSeq(text, i + 3, i + 3) \in {"5", "6", "7", "8", "9"}
               \/ /\ SubSeq(text, i + 2, i + 2) = "2"
                  /\ SubSeq(text, i + 3, i + 3) \in {"0", "1", "2", "3", "4", "5"}
        at == {i \in 1..(Len(text) - 3) : IsMatch(i)}
    IN  IF at = {} THEN 0
        ELSE LET first == CHOOSE i \in at : \A j \in at : i <= j
             IN  2000 + 10 * DigitVal(SubSeq(text, first + 2, first + 2))
                      + DigitVal(SubSeq(text, first + 3, first + 3))

\* PDFPlacementParser._is_tech_placement(placement)
PDF_is_tech_placement(placement) ==
    /\ placement # ""
    /\ ~is_academia(placement)
    /\ \E company \in PDF_TECH_COMPANIES : Contains(Lower(placement), company)

\* what a line of the first loop of _parse_text is: the header of a year, of the
\* private-sector section, of another section, or an entry
PDF_line_kind(line) ==
    IF PDF_extract_year(line) # 0 /\ Contains(line, "-") /\ Len(line) < 30 THEN "year"
    ELSE IF Contains(Lower(line), "private sector") THEN "private"
    ELSE IF Contains(Lower(line), "academic") \/ Contains(Lower(line), "post-doc")
            \/ Contains(Lower(line), "public sector")
    THEN "other"
    ELSE "entry"

RECURSIVE PDF_name_words(_, _, _)
\* the loop over words of lines 273-287 from word i on (1-based): the name words
PDF_name_words(words, i, found_name_start) ==
    IF i > Len(words) THEN <<>>
    ELSE LET word == words[i]
         IN  IF i = 1 \/ (i = 2 /\ Lower(words[1]) \in PDF_TECH_COMPANIES)
             THEN PDF_name_words(words, i + 1, found_name_start)
             ELSE IF StartsWith(word, "(") /\ SubSeq(word, Len(word), Len(word)) = ")"
             THEN PDF_name_words(words, i + 1, found_name_start)
             ELSE IF IsLowerWord(word) \/ Lower(word) \in {"and", "of", "the", "for"}
             THEN PDF_name_words(words, i + 1, found_name_start)
             ELSE LET found == found_name_start \/ IsUpperChar(SubSeq(word, 1, 1))
                  IN  (IF found THEN <<word>> ELSE <<>>)
                      \o PDF_name_words(words, i + 1, found)

\* an entry line of the private-sector section, lines 250-303: <<candidate>> or <<>>.
\* The lines of the model start with at most one company of TECH_COMPANIES.
PDF_company_line(line, current_year, school) ==
    LET matched == {company \in PDF_TECH_COMPANIES : StartsWith(Lower(line), company)}
        name == Join(PDF_name_words(Words(line), 1, FALSE), " ")
    IN  IF matched = {} THEN <<>>
        ELSE IF Len(name) < 3 \/ Len(name) > 100 THEN <<>>
        ELSE <<Cand(name, school, IF current_year # 0 THEN current_year ELSE 2024, "",
                    Title(CHOOSE company \in matched : TRUE))>>

RECURSIVE PDF_first_loop(_, _, _, _, _)
\* the first loop of _parse_text from line i on
PDF_first_loop(lines, i, current_year, in_private_sector, school) ==
    IF i > Len(lines) THEN <<>>
    ELSE LET line == Strip(lines[i])
             kind == PDF_line_kind(line)
         IN  IF line = ""
             THEN PDF_first_loop(lines, i + 1, current_year, in_private_sector, school)
             ELSE IF kind = "year"
             THEN PDF_first_loop(lines, i + 1, PDF_extract_year(line), in_private_sector,
                                 school)
             ELSE IF kind = "private"
             THEN PDF_first_loop(lines, i + 1, current_year, TRUE, school)
             ELSE IF kind = "other"
             THEN PDF_first_loop(lines, i + 1, current_year, FALSE, school)
             ELSE (IF in_private_sector THEN PDF_company_line(line, current_year, school)
                   ELSE <<>>)
                  \o PDF_first_loop(lines, i + 1, current_year, in_private_sector, school)

\* the separator loop of lines 317-345 on one line, given the candidates so far
PDF_separator_line(line, current_year, candidates, school) ==
    LET seps == <<" - ", ": ">>
        ok(k) == /\ Contains(line, seps[k])
                 /\ LET parts == Split1(line, seps[k])
                        name == Strip(parts[1])
                    IN  /\ Len(name) >= 3 /\ Len(name) <= 100
                        /\ PDF_is_tech_placement(Strip(parts[2]))
                        /\ \A c \in 1..Len(candidates) : candidates[c].name # name
        found == {k \in 1..2 : ok(k)}
    IN  IF found = {} THEN <<>>
        ELSE LET parts == Split1(line, seps[CHOOSE k \in found : \A j \in found : k <= j])
             IN  <<Cand(Strip(parts[1]), school,
                        IF current_year # 0 THEN current_year ELSE 2024, "",
                        normalize_company(Strip(parts[2])))>>

RECURSIVE PDF_second_loop(_, _, _, _, _)
\* the second loop of _parse_text from line i on: the candidates list at its end
PDF_second_loop(lines, i, current_year, candidates, school) ==
    IF i > Len(lines) THEN candidates
    ELSE LET line == Strip(lines[i])
             year == PDF_extract_year(line)
         IN  IF line = "" THEN PDF_second_loop(lines, i + 1, current_year, candidates, school)
             ELSE IF year # 0 /\ Len(line) < 20
             THEN PDF_second_loop(lines, i + 1, year, candidates, school)
             ELSE PDF_second_loop(lines, i + 1, current_year,
                      candidates \o PDF_separator_line(line, current_year, candidates, school),
                      school)

\* PDFPlacementParser._parse_text(text)
PDF_parse_text(lines, school) ==
    PDF_second_loop(lines, 1, 0, PDF_first_loop(lines, 1, 0, FALSE, school), school)

-----------------------------------------------------------------------------
(* parsers/__init__.py and EconPhDScraper.parse_page *)

\* parsers.CUSTOM_PARSERS: the schools of the model that have a registered parser
\* ('University of Wisconsin-Madison' of scraper.SCHOOLS is no key of CUSTOM_PARSERS)
CUSTOM_PARSERS == {"Harvard", "NYU"}

\* CUSTOM_PARSERS[school].parse(soup)
custom_parse(doc, school) ==
    CASE school = "Harvard" -> Harvard_parse(doc)
      [] school = "NYU" -> NYU_parse(doc)

\* parse_page never falling back (defined to be compared with parse_page)
parse_page_no_fallback(doc, school) ==
    IF school \in CUSTOM_PARSERS THEN custom_parse(doc, school)
    ELSE generic_parse(doc, school)

\* EconPhDScraper.parse_page(soup, school), for a document the parsers do not raise on
parse_page(doc, school) ==
    LET candidates == IF school \in CUSTOM_PARSERS THEN custom_parse(doc, school) ELSE <<>>
    IN  IF candidates # <<>> THEN candidates
        ELSE generic_parse(doc, school)

-----------------------------------------------------------------------------
(* The configured sources and the pages they may serve *)

\* scraper.SCHOOLS: two of its entries, one with a registered parser, one without
\* (of the second, the first of its two urls)
SCHOOLS == <<
    [school |-> "Harvard",
     urls |-> <<"https://www.economics.harvard.edu/placement",
                "https://www.economics.harvard.edu/job-market-candidates">>],
    [school |-> "University of Wisconsin-Madison",
     urls |-> <<"https://econ.wisc.edu/doctoral/career-placement/">>] >>

URLS == UNION {Range(SCHOOLS[k].urls) : k \in DOMAIN SCHOOLS}

SchoolOf(url) == SCHOOLS[CHOOSE k \in DOMAIN SCHOOLS : url \in Range(SCHOOLS[k].urls)].school

Page(tables, cards, elems) ==
    [small |-> FALSE, js_marker |-> FALSE, raises |-> FALSE, tables |-> tables,
     cards |-> cards, elems |-> elems, items |-> <<>>, dls |-> <<>>]

\* The pages of the model, by name.  small: len(html) < 1000; js_marker: the html holds
\* one of fetch_page's js_markers; raises: the parser raises on this page.
Docs ==
    [HP1 |-> Page(<< << <<"Name", "Placement">>,
                        <<"John Smith", "Google">>,
                        <<"Bob Lee", "Assistant Professor, Yale">> >> >>, <<>>, <<>>),
     HPX |-> [Page(<<>>, <<>>, <<>>) EXCEPT !.raises = TRUE],
     HJ1 |-> Page(<<>>,
                  << [name |-> "John Smith", placement |-> "Google", fields |-> "IO",
                      text |-> "John SmithGoogleIO"],
                     [name |-> "Ann Lee", placement |-> "Stripe", fields |-> "",
                      text |-> "Ann LeeStripe 2022"] >>, <<>>),
     HJ2 |-> Page(<<>>,
                  << [name |-> "Ann Lee", placement |-> "Postdoc, MIT", fields |-> "",
                      text |-> "Ann LeePostdoc, MIT"] >>, <<>>),
     WFIX |-> Page(<< << <<"Name", "Placement">>,
                         <<"Alice Kim", "Senior Economist, Amazon">>,
                         <<"Bob Lee", "Assistant Professor, Yale">>,
                         <<"2023", "Google">> >> >>, <<>>, <<>>),
     WJS |-> [Page(<< << <<"Student", "Research Area", "Placement">>,
                          <<"John Smith", "Labor", "Amazon">>,
                          <<"A", "Theory", "Google">> >> >>, <<>>,
                   <<"Class of 2024", "Kim Roe, Uber", "Eve Poe: eve@wisc.edu">>)
                 EXCEPT !.js_marker = TRUE],
     SMALL |-> [Page(<<>>, <<>>, <<>>) EXCEPT !.small = TRUE]]

DocIds == DOMAIN Docs

\* what a fetch of the url may find there
Serves(url) ==
    CASE url = SCHOOLS[1].urls[1] -> {"HP1", "HPX"}
      [] url = SCHOOLS[1].urls[2] -> {"HJ1", "HJ2"}
      [] url = SCHOOLS[2].urls[1] -> {"WFIX", "WJS"}

\* EconPhDScraper._hash_content(html): md5, taken to be free of collisions
hash_content(d) == "md5(" \o d \o ")"

\* self.state['pages'].get(url, {}).get('hash'), "" for None
old_hash_of(st, url) == IF url \in DOMAIN st THEN st[url].hash ELSE ""

\* fetch_page without the except clause of line 389: the RequestException leaves it
\* (defined to be compared with fetch_page)
fetch_page_uncaught(url, r, st, has_pages, f, now) ==
    IF r = "RequestException"
    THEN [soup |-> "None", needs_selenium |-> FALSE, state |-> st,
          printed |-> "", exc |-> TRUE]
    ELSE IF Docs[r].small \/ Docs[r].js_marker
    THEN [soup |-> "None", needs_selenium |-> TRUE, state |-> st,
          printed |-> "needs Selenium", exc |-> FALSE]
    ELSE IF ~has_pages
    THEN [soup |-> "None", needs_selenium |-> FALSE, state |-> st,
          printed |-> "", exc |-> TRUE]
    ELSE IF ~f /\ old_hash_of(st, url) = hash_content(r)
    THEN [soup |-> "None", needs_selenium |-> FALSE, state |-> st,
          printed |-> "SKIP", exc |-> FALSE]
    ELSE [soup |-> r, needs_selenium |-> FALSE,
          state |-> [u \in DOMAIN st \cup {url} |->
                        IF u = url THEN [hash |-> hash_content(r), last_scraped |-> now]
                        ELSE st[u]],
          printed |-> "", exc |-> FALSE]

\* EconPhDScraper.fetch_page(url) when the GET ends as r: "RequestException" or the
\* page served.  st is self.state['pages'], has_pages whether self.state has that key,
\* f is self.force, now the time of the run.
\* Returns the soup ("None" or the page), needs_selenium, the new self.state['pages'],
\* what was printed, and whether an exception left fetch_page: the except clause at
\* line 389 catches every RequestException, and not the KeyError of line 373 when
\* self.state has no 'pages'.
fetch_page(url, r, st, has_pages, f, now) ==
    IF r = "RequestException"
    THEN [soup |-> "None", needs_selenium |-> TRUE, state |-> st,
          printed |-> "Error fetching", exc |-> FALSE]
    ELSE IF Docs[r].small \/ Docs[r].js_marker
    THEN [soup |-> "None", needs_selenium |-> TRUE, state |-> st,
          printed |-> "needs Selenium", exc |-> FALSE]
    ELSE IF ~has_pages
    THEN [soup |-> "None", needs_selenium |-> FALSE, state |-> st,
          printed |-> "", exc |-> TRUE]
    ELSE IF ~f /\ old_hash_of(st, url) = hash_content(r)
    THEN [soup |-> "None", needs_selenium |-> FALSE, state |-> st,
          printed |-> "SKIP", exc |-> FALSE]
    ELSE [soup |-> r, needs_selenium |-> FALSE,
          state |-> [u \in DOMAIN st \cup {url} |->
                        IF u = url THEN [hash |-> hash_content(r), last_scraped |-> now]
                        ELSE st[u]],
          printed |-> "", exc |-> FALSE]

\* max_retries of fetch_page_selenium
max_retries == 3

\* what an attempt of fetch_page_selenium may raise: driver.get a WebDriverException,
\* WebDriverWait(...).until a TimeoutException
SeleniumExceptions == {"WebDriverException", "TimeoutException"}

\* the except clause of fetch_page_selenium without its return (defined to be compared
\* with selenium_attempt): a failed attempt is always followed by another
selenium_attempt_unbounded(met, attempt) ==
    IF met \in SeleniumExceptions THEN "pending"
    ELSE IF Docs[met].small
    THEN IF attempt + 1 < max_retries THEN "pending" ELSE "None"
    ELSE met

\* one pass of the body of the for loop of fetch_page_selenium, attempt in
\* range(max_retries), meeting met (an exception, or the page source): what the call
\* has returned after it, "pending" when the loop goes on.  except Exception (338-342)
\* returns None on the last attempt; a too-small page continues the loop (328-331),
\* whose end is the return None of line 344.
selenium_attempt(met, attempt) ==
    IF met \in SeleniumExceptions
    THEN IF attempt = max_retries - 1 THEN "None" ELSE "pending"
    ELSE IF Docs[met].small
    THEN IF attempt + 1 < max_retries THEN "pending" ELSE "None"
    ELSE met

RECURSIVE selenium_from(_, _)
\* the retry loop of fetch_page_selenium from attempt k on; attempts[k] is what attempt
\* k meets: "WebDriverException" or the page source
selenium_from(attempts, k) ==
    IF k > max_retries THEN "None"
    ELSE IF attempts[k] \in SeleniumExceptions THEN selenium_from(attempts, k + 1)
    ELSE IF Docs[attempts[k]].small THEN selenium_from(attempts, k + 1)
    ELSE attempts[k]

\* EconPhDScraper.fetch_page_selenium(url): the soup, or "None"
fetch_page_selenium(attempts) == selenium_from(attempts, 1)

\* what fetch_page_selenium(url) may return, over all the ways its attempts may go
SeleniumResults(url) ==
    {fetch_page_selenium(attempts) :
        attempts \in [1..max_retries -> {"WebDriverException"} \cup Serves(url)]}

RECURSIVE drop_duplicates_by_name(_)
\* drop_duplicates with subset=['name'] (defined to be compared with drop_duplicates)
drop_duplicates_by_name(cs) ==
    IF cs = <<>> THEN <<>>
    ELSE LET init == drop_duplicates_by_name(SubSeq(cs, 1, Len(cs) - 1))
             last == cs[Len(cs)]
         IN  IF \E k \in 1..Len(init) : init[k].name = last.name
             THEN init ELSE Append(init, last)

RECURSIVE drop_duplicates(_)
\* df.drop_duplicates(subset=['name', 'school']): the first row of each key is kept
drop_duplicates(cs) ==
    IF cs = <<>> THEN <<>>
    ELSE LET init == drop_duplicates(SubSeq(cs, 1, Len(cs) - 1))
             last == cs[Len(cs)]
         IN  IF \E k \in 1..Len(init) :
                    init[k].name = last.name /\ init[k].school = last.school
             THEN init ELSE Append(init, last)

\* scrape_school without the filter of line 642 (defined to be compared with
\* tech_candidates)
tech_candidates_unfiltered(cs) == cs

\* the tech filter of scrape_school, line 642
tech_candidates(cs) ==
    SelectRecs(cs, {c \in Range(cs) : is_tech_placement(c.initial_placement)})

\* EconPhDScraper.save: the table written to data/candidates.csv
save(table) ==
    [k \in 1..Len(table) |->
        [table[k] EXCEPT !.initial_placement = normalize_company(@)]]

-----------------------------------------------------------------------------
(* scraper.py: main, scrape_all, scrape_school as a state machine *)

\* the number of runs of main() the model follows
MaxRuns == 2

\* The history of one run: nothing here is read by the program.
\*   failed   : the urls whose GET raised a RequestException
\*   reported : the urls for which "Error fetching" was printed
\*   skipped  : the urls fetch_page skipped as unchanged
\*   fetched  : the <<url, page>> fetch_page or fetch_page_selenium returned content for
\*   handed   : the <<url, page>> handed to parse_page
\*   parsed   : the <<url, page>> parse_page returned normally for
\*   raisedAt : the urls on whose page the parser raised
\*   atStart  : the persisted state when the run started
HistInit(persisted) ==
    [failed |-> {}, reported |-> {}, skipped |-> {}, fetched |-> {}, handed |-> {},
     parsed |-> {}, raisedAt |-> {}, atStart |-> persisted]

ScrapeInit ==
    /\ pc = "idle"
    /\ run = 0
    /\ force = FALSE
    /\ state = <<>>
    /\ stateFile = <<>>
    /\ stateKind = "pages"
    /\ hasPages = TRUE
    /\ csvFile = <<>>
    /\ si = 1
    /\ ui = 1
    /\ needSel = <<>>
    /\ schoolCands = <<>>
    /\ allCands = <<>>
    /\ df = <<>>
    /\ outcome = "idle"
    /\ hist = HistInit(<<>>)

\* The kinds of content of data/scrape_state.json:
\*   pages    : no file, or a JSON object with the key 'pages' (what _save_state writes)
\*   not_json : a text json.load rejects with JSONDecodeError (empty, truncated, garbage)
\*   no_pages : valid JSON without a 'pages' object, such as {}
\*   not_utf8 : bytes that are no UTF-8 text: reading raises UnicodeDecodeError
\* The kinds other than pages are the corrupt ones.
CorruptKinds == {"not_json", "no_pages", "not_utf8"}

\* EconPhDScraper._load_state(): the 'pages' of the state loaded, whether the state has
\* that key, and whether an exception left _load_state (only JSONDecodeError is caught)
load_state(kind, pages) ==
    [pages |-> IF kind = "pages" THEN pages ELSE <<>>,
     has_pages |-> kind \in {"pages", "not_json"},
     exc |-> kind = "not_utf8"]

\* EconPhDScraper._save_state(): the kind of content written for self.state
save_state_kind(has_pages) == IF has_pages THEN "pages" ELSE "no_pages"

\* main() starts: EconPhDScraper(force=f), whose __init__ loads the state; an exception
\* of _load_state leaves the constructor and main()
StartRun ==
    /\ pc \in {"idle", "done"}
    /\ run < MaxRuns
    /\ \E f \in BOOLEAN : force' = f
    /\ run' = run + 1
    /\ LET loaded == load_state(stateKind, stateFile)
       IN  /\ state' = loaded.pages
           /\ hasPages' = loaded.has_pages
           /\ hist' = HistInit(loaded.pages)
           /\ outcome' = IF loaded.exc THEN "raised" ELSE "running"
           /\ pc' = IF loaded.exc THEN "done" ELSE "fetch"
    /\ si' = 1
    /\ ui' = 1
    /\ needSel' = <<>>
    /\ schoolCands' = <<>>
    /\ allCands' = <<>>
    /\ df' = <<>>
    /\ UNCHANGED <<stateFile, stateKind, csvFile>>
    /\ UNCHANGED <<enrichVars, callVars>>

\* An exception leaves scrape_school and scrape_all: the finally clause of scrape_all
\* saves the state as it is now, and main() dies with the exception.
Unwind(st) ==
    /\ stateFile' = st
    /\ stateKind' = save_state_kind(hasPages)
    /\ outcome' = "raised"
    /\ pc' = "done"
    /\ UNCHANGED <<si, ui, needSel, schoolCands, allCands, df, csvFile>>

\* parse_page on the page d of url; then the loop goes on at nextPc/nextUi
ParseAndGoOn(url, d, st, h, nextPc, nextUi, sel) ==
    IF Docs[d].raises
    THEN /\ hist' = [h EXCEPT !.handed = @ \cup {<<url, d>>}, !.raisedAt = @ \cup {url}]
         /\ Unwind(st)
    ELSE /\ hist' = [h EXCEPT !.handed = @ \cup {<<url, d>>}, !.parsed = @ \cup {<<url, d>>}]
         /\ schoolCands' = schoolCands \o parse_page(Docs[d], SCHOOLS[si].school)
         /\ needSel' = sel
         /\ pc' = nextPc
         /\ ui' = nextUi
         /\ UNCHANGED <<si, allCands, df, outcome, stateFile, stateKind, csvFile>>

\* one iteration of the loop of scrape_school over config['urls'], lines 610-619
FetchPage ==
    /\ pc = "fetch"
    /\ LET urls == SCHOOLS[si].urls
           url == urls[ui]
       IN  \E r \in {"RequestException"} \cup Serves(url) :
           LET res == fetch_page(url, r, state, hasPages, force, run)
               sel == IF res.needs_selenium THEN Append(needSel, url) ELSE needSel
               h == [hist EXCEPT
                        !.failed = IF r = "RequestException" THEN @ \cup {url} ELSE @,
                        !.reported = IF res.printed = "Error fetching" THEN @ \cup {url} ELSE @,
                        !.skipped = IF res.printed = "SKIP" THEN @ \cup {url} ELSE @,
                        !.fetched = IF res.soup # "None" THEN @ \cup {<<url, res.soup>>} ELSE @]
               last == ui = Len(urls)
               cands == IF res.soup # "None" /\ ~Docs[res.soup].raises
                        THEN schoolCands \o parse_page(Docs[res.soup], SCHOOLS[si].school)
                        ELSE schoolCands
               nextPc == IF ~last THEN "fetch"
                         ELSE IF sel # <<>> THEN "selenium"
                         ELSE IF Len(cands) = 0 THEN "lastresort"
                         ELSE "filter"
               nextUi == IF last THEN 1 ELSE ui + 1
           IN  /\ state' = res.state
               /\ UNCHANGED <<run, force, hasPages>>
               /\ IF res.exc
                  THEN hist' = h /\ Unwind(res.state)
                  ELSE IF res.soup # "None"
                  THEN ParseAndGoOn(url, res.soup, res.state, h, nextPc, nextUi, sel)
                  ELSE /\ hist' = h
                       /\ needSel' = sel
                       /\ pc' = nextPc
                       /\ ui' = nextUi
                       /\ UNCHANGED <<si, schoolCands, allCands, df, outcome, stateFile,
                                      stateKind, csvFile>>
    /\ UNCHANGED <<enrichVars, callVars>>

\* one Selenium fetch of url and the parse of what it returns
SeleniumStep(url, nextPc, nextUi) ==
    \E soup \in SeleniumResults(url) :
            IF soup # "None"
            THEN ParseAndGoOn(url, soup, state,
                              [hist EXCEPT !.fetched = @ \cup {<<url, soup>>}],
                              nextPc, nextUi, needSel)
            ELSE /\ pc' = nextPc
                 /\ ui' = nextUi
                 /\ UNCHANGED <<si, needSel, schoolCands, allCands, df, outcome, hist,
                                stateFile, stateKind, csvFile>>

\* one iteration of the loop over urls_needing_selenium, lines 622-629
SeleniumRetry ==
    /\ pc = "selenium"
    /\ LET last == ui = Len(needSel)
       IN  SeleniumStep(needSel[ui], IF last THEN "filter" ELSE "selenium",
                        IF last THEN 1 ELSE ui + 1)
    /\ UNCHANGED <<run, force, state, hasPages>>
    /\ UNCHANGED <<enrichVars, callVars>>

\* one iteration of the last-resort loop over config['urls'], lines 632-639
LastResort ==
    /\ pc = "lastresort"
    /\ LET last == ui = Len(SCHOOLS[si].urls)
       IN  SeleniumStep(SCHOOLS[si].urls[ui], IF last THEN "filter" ELSE "lastresort",
                        IF last THEN 1 ELSE ui + 1)
    /\ UNCHANGED <<run, force, state, hasPages>>
    /\ UNCHANGED <<enrichVars, callVars>>

\* scrape_school returns its tech candidates (641-645); scrape_all extends its list
\* (654) and goes to the next school
FilterSchool ==
    /\ pc = "filter"
    /\ allCands' = allCands \o tech_candidates(schoolCands)
    /\ schoolCands' = <<>>
    /\ needSel' = <<>>
    /\ ui' = 1
    /\ IF si < Len(SCHOOLS)
       THEN si' = si + 1 /\ pc' = "fetch"
       ELSE si' = si /\ pc' = "finish"
    /\ UNCHANGED <<run, force, state, hasPages, stateFile, stateKind, csvFile, df,
                   outcome, hist>>
    /\ UNCHANGED <<enrichVars, callVars>>

\* the rest of scrape_all: the finally clause saves the state (655-659), the table is
\* deduplicated (661-664) and returned
ScrapeAllReturn ==
    /\ pc = "finish"
    /\ stateFile' = state
    /\ stateKind' = save_state_kind(hasPages)
    /\ df' = drop_duplicates(allCands)
    /\ outcome' = "returned"
    /\ pc' = "main"
    /\ UNCHANGED <<run, force, state, hasPages, csvFile, si, ui, needSel, schoolCands,
                   allCands, hist>>
    /\ UNCHANGED <<enrichVars, callVars>>

\* main() after scrape_all: save the table unless it is empty (703-704)
MainSave ==
    /\ pc = "main"
    /\ csvFile' = IF df # <<>> THEN save(df) ELSE csvFile
    /\ pc' = "done"
    /\ UNCHANGED <<run, force, state, hasPages, stateFile, stateKind, si, ui, needSel,
                   schoolCands, allCands, df, outcome, hist>>
    /\ UNCHANGED <<enrichVars, callVars>>

-----------------------------------------------------------------------------
(* enricher.py.  A cell of the DataFrame is a Python value [t, v]: its type and its  *)
(* str(); a cell of a csv file is a text.                                          *)

Str(s) == [t |-> "str", v |-> s]
NaN == [t |-> "float", v |-> "nan"]
Int0 == [t |-> "int", v |-> "0"]

\* str(value)
py_str(x) == x.v

\* the columns of the enriched table: those of candidates.csv the adapter reads, and
\* new_cols (enricher.py 243-246)
ID_COLS == {"name", "school", "research_fields", "initial_placement"}
NEW_COLS == {"current_role", "current_company", "team", "work_focus", "notes",
             "linkedin_url", "citations", "h_index", "research_interests",
             "top_publications"}
ALL_COLS == ID_COLS \cup NEW_COLS

\* to_csv writing every field empty (defined to be compared with to_csv_cell)
to_csv_cell_blank(x) == ""

\* DataFrame.to_csv: NaN is written as the empty field, anything else as its str()
to_csv_cell(x) == IF x = NaN THEN "" ELSE py_str(x)

to_csv(rows) == [k \in 1..Len(rows) |-> [c \in ALL_COLS |-> to_csv_cell(rows[k][c])]]

\* the texts pandas.read_csv takes for NaN (those a cell of this table can hold)
NA_VALUES == {"", "nan", "NaN", "NA", "N/A", "null", "NULL", "None", "n/a"}

IsIntText(s) == s # "" /\ \A i \in 1..Len(s) : IsDigit(SubSeq(s, i, i))

IsFloatText(s) ==
    \E d \in 2..(Len(s) - 1) :
        /\ SubSeq(s, d, d) = "."
        /\ IsIntText(SubSeq(s, 1, d - 1))
        /\ IsIntText(SubSeq(s, d + 1, Len(s)))

\* pandas.read_csv on one column: int64 when every field is an integer, float64 when
\* every field is a number or NaN, object otherwise
read_column(texts) ==
    LET rowsOf == 1..Len(texts)
        present == {i \in rowsOf : texts[i] \notin NA_VALUES}
        allInt == \A i \in present : IsIntText(texts[i])
        allNum == \A i \in present : IsIntText(texts[i]) \/ IsFloatText(texts[i])
    IN  IF allInt /\ present = rowsOf
        THEN [i \in rowsOf |-> [t |-> "int", v |-> texts[i]]]
        ELSE IF allNum
        THEN [i \in rowsOf |->
                 IF i \notin present THEN NaN
                 ELSE [t |-> "float",
                       v |-> IF IsIntText(texts[i]) THEN texts[i] \o ".0" ELSE texts[i]]]
        ELSE [i \in rowsOf |-> IF i \in present THEN Str(texts[i]) ELSE NaN]

\* pandas.read_csv(output_path)
read_csv(file) ==
    LET col(c) == read_column([k \in 1..Len(file) |-> file[k][c]])
    IN  [k \in 1..Len(file) |-> [c \in ALL_COLS |-> col(c)[k]]]

\* pandas.read_csv(input_path) and the new columns added at 247-249: candidates.csv as
\* scraper.save wrote it has current_role and linkedin_url, empty in every row
read_input(table) ==
    [k \in 1..Len(table) |->
        [c \in ALL_COLS |->
            CASE c = "name" -> Str(table[k].name)
              [] c = "school" -> Str(table[k].school)
              [] c = "research_fields" ->
                    IF table[k].research_fields = "" THEN NaN
                    ELSE Str(table[k].research_fields)
              [] c = "initial_placement" -> Str(table[k].initial_placement)
              [] c \in {"current_role", "linkedin_url"} -> NaN
              [] c \in {"research_interests", "top_publications", "notes"} -> Str("")
              [] OTHER -> Int0]]

\* df['initial_placement'].apply(normalize_company), line 240
normalize_rows(rows) ==
    [k \in 1..Len(rows) |->
        [rows[k] EXCEPT !["initial_placement"] =
            IF @.t = "str" THEN Str(normalize_company(@.v)) ELSE @]]

\* is_already_enriched(row, check_work_focus) with 'Unknown' missing from the
\* placeholders of line 173
is_already_enriched_unknown_is_role(row, check_work_focus) ==
    LET notes == Strip(py_str(row["notes"]))
        current_role == Strip(py_str(row["current_role"]))
        has_notes == notes # "" /\ ~StartsWith(notes, "Error:")
        has_role == current_role # "" /\ current_role \notin {"", "0", "nan"}
        basic_enriched == has_notes \/ has_role
        work_focus == Strip(py_str(row["work_focus"]))
        has_work_focus == work_focus # "" /\ work_focus \notin {"", "Unknown", "0", "0.0", "nan"}
    IN  IF check_work_focus THEN basic_enriched /\ has_work_focus ELSE basic_enriched

\* is_already_enriched(row, check_work_focus) returning nothing (None is falsy)
is_already_enriched_no_return(row, check_work_focus) == FALSE

\* enricher.is_already_enriched(row, check_work_focus)
is_already_enriched(row, check_work_focus) ==
    LET notes == Strip(py_str(row["notes"]))
        current_role == Strip(py_str(row["current_role"]))
        has_notes == notes # "" /\ ~StartsWith(notes, "Error:")
        has_role == current_role # "" /\ current_role \notin {"", "Unknown", "0", "nan"}
        basic_enriched == has_notes \/ has_role
        work_focus == Strip(py_str(row["work_focus"]))
        has_work_focus == work_focus # "" /\ work_focus \notin {"", "Unknown", "0", "0.0", "nan"}
    IN  IF check_work_focus THEN basic_enriched /\ has_work_focus ELSE basic_enriched

\* the JSON objects the Sonar call may reply
SonarReplies == {
    [current_role |-> "Senior Economist", current_company |-> "Facebook",
     team |-> "Ads", work_focus |-> "Pricing", notes |-> "Joined 2021",
     linkedin_url |-> "linkedin.com/in/js"],
    [current_role |-> "Assistant Professor", current_company |-> "Yale University",
     team |-> "", work_focus |-> "Unknown", notes |-> "",
     linkedin_url |-> ""] }

\* the dict enrich_with_sonar returns when the call or the JSON parse raised e (100-109)
sonar_error_info(company, e) ==
    [current_role |-> "Unknown", current_company |-> company, team |-> "Unknown",
     work_focus |-> "Unknown", notes |-> "Error: " \o e, linkedin_url |-> ""]

\* how the try block of enrich_with_sonar may end: with the reply parsed, or with an
\* exception of the call or of json.loads
SonarOutcomes ==
    {[raised |-> FALSE, e |-> "", json |-> r] : r \in SonarReplies}
    \cup {[raised |-> TRUE, e |-> "timeout", json |-> sonar_error_info("", "")]}

\* enrich_with_sonar(name, company, ...) when the try block ends as o
enrich_with_sonar(company, o) ==
    IF o.raised THEN sonar_error_info(company, o.e) ELSE o.json

\* what get_scholar_data may give enrich_candidate: nothing when Scholar is off
ScholarReplies == {[on |-> FALSE, citations |-> "0", h_index |-> "0"],
                   [on |-> TRUE, citations |-> "12", h_index |-> "3"]}

\* the assignments of main, lines 272-285, to the row: info is what enrich_candidate
\* returned, sch the Scholar part of it
enriched_row(row, info, sch) ==
    LET raw_company == info.current_company IN
    [c \in ALL_COLS |->
        CASE c = "current_role" -> Str(info.current_role)
          [] c = "current_company" ->
                IF raw_company # "" THEN Str(standardize_current_placement(raw_company))
                ELSE Str("")
          [] c = "team" -> Str(info.team)
          [] c = "work_focus" -> Str(info.work_focus)
          [] c = "notes" -> Str(info.notes)
          [] c = "linkedin_url" -> Str(info.linkedin_url)
          [] c = "citations" -> [t |-> "int", v |-> sch.citations]
          [] c = "h_index" -> [t |-> "int", v |-> sch.h_index]
          [] c = "research_interests" -> Str("")
          [] c = "top_publications" -> Str("[]")
          [] OTHER -> row[c]]

\* the number of enrichment passes (runs of enricher.main) the model follows
MaxPasses == 2

\* the number of rows of candidates.csv
MaxRows == 2

\* data/candidates.csv as a scrape that parsed the pages HP1, HJ1 and WJS saved it
EnrichInput ==
    LET table == save(drop_duplicates(
                     tech_candidates(parse_page(Docs["HP1"], "Harvard")
                                     \o parse_page(Docs["HJ1"], "Harvard"))
                     \o tech_candidates(parse_page(Docs["WJS"], SCHOOLS[2].school))))
    IN  SubSeq(table, 1, IF MaxRows < Len(table) THEN MaxRows ELSE Len(table))

\* The history of one pass: nothing here is read by the program.
\*   calls   : the rows the lookup was invoked for
\*   failed  : the rows whose lookup raised
\*   skipped : the rows skipped as already enriched
\*   atLoad  : the table as loaded at the start of the pass
\*   raw     : for each row of calls, the current_company its lookup returned
\* and across the passes
\*   good    : the rows whose latest lookup, in this pass or an earlier one, did not raise
\*   before  : good as it was when the pass started
\*   resumed : the pass before this one was killed inside its loop
EHistInit(rows) ==
    [calls |-> {}, failed |-> {}, skipped |-> {}, atLoad |-> rows, raw |-> <<>>,
     good |-> {}, before |-> {}, resumed |-> FALSE]

EnrichInit ==
    /\ erows = <<>>
    /\ eout = <<>>
    /\ eoutExists = FALSE
    /\ epc = "idle"
    /\ eidx = 1
    /\ eforce = FALSE
    /\ ewf = FALSE
    /\ epass = 0
    /\ ehist = EHistInit(<<>>)

\* enricher.main up to the loop: parse the flags, load the table (229-249)
StartPass ==
    /\ epc \in {"idle", "done"}
    /\ epass < MaxPasses
    /\ \E f \in BOOLEAN, w \in BOOLEAN :
          LET loaded == normalize_rows(IF eoutExists /\ ~f THEN read_csv(eout)
                                       ELSE read_input(csvFile))
          IN  /\ eforce' = f
              /\ ewf' = w
              /\ erows' = loaded
              /\ ehist' = [EHistInit(loaded) EXCEPT
                                !.good = ehist.good,
                                !.before = ehist.good,
                                !.resumed = (epc = "idle" /\ epass > 0)]
              /\ epc' = IF Len(loaded) = 0 THEN "done" ELSE "loop"
    /\ eidx' = 1
    /\ epass' = epass + 1
    /\ UNCHANGED <<eout, eoutExists>>
    /\ UNCHANGED <<scrapeVars, callVars>>

\* one iteration of the loop of main over df.iterrows(), lines 255-288
EnrichRow ==
    /\ epc = "loop"
    /\ LET row == erows[eidx]
           nextPc == IF eidx = Len(erows) THEN "done" ELSE "loop"
       IN  IF ~eforce /\ is_already_enriched(row, ewf)
           THEN /\ epc' = nextPc
                /\ eidx' = eidx + 1
                /\ ehist' = [ehist EXCEPT !.skipped = @ \cup {eidx}]
                /\ UNCHANGED <<erows, eout, eoutExists>>
           ELSE \E reply \in SonarOutcomes, sch \in ScholarReplies :
                   LET info == enrich_with_sonar(py_str(row["initial_placement"]), reply)
                       rows == [erows EXCEPT ![eidx] = enriched_row(row, info, sch)]
                   IN  /\ erows' = rows
                       /\ eout' = to_csv(rows)
                       /\ eoutExists' = TRUE
                       /\ ehist' = [ehist EXCEPT
                                       !.calls = @ \cup {eidx},
                                       !.raw = [k \in DOMAIN @ \cup {eidx} |->
                                                   IF k = eidx THEN info.current_company
                                                   ELSE @[k]],
                                       !.failed = IF reply.raised
                                                  THEN @ \cup {eidx} ELSE @,
                                       !.good = IF reply.raised
                                                THEN @ \ {eidx} ELSE @ \cup {eidx}]
                       /\ epc' = nextPc
                       /\ eidx' = eidx + 1
    /\ UNCHANGED <<eforce, ewf, epass>>
    /\ UNCHANGED <<scrapeVars, callVars>>

\* the process is killed inside the loop: the DataFrame is lost, the files stay
Interrupt ==
    /\ epc = "loop"
    /\ epc' = "idle"
    /\ UNCHANGED <<erows, eout, eoutExists, eidx, eforce, ewf, epass, ehist>>
    /\ UNCHANGED <<scrapeVars, callVars>>

\* no function is called on its own
CallInit == fn = "none" /\ arg = "" /\ out = <<>>

Init == ScrapeInit /\ EnrichInit /\ CallInit

Next ==
    \/ StartRun
    \/ FetchPage
    \/ SeleniumRetry
    \/ LastResort
    \/ FilterSchool
    \/ ScrapeAllReturn
    \/ MainSave

Spec == Init /\ [][Next]_vars

\* the state before a first run that finds a corrupt data/scrape_state.json
InitCorrupt ==
    /\ pc = "idle"
    /\ run = 0
    /\ force = FALSE
    /\ state = <<>>
    /\ stateFile = <<>>
    /\ stateKind \in CorruptKinds
    /\ hasPages = TRUE
    /\ csvFile = <<>>
    /\ si = 1
    /\ ui = 1
    /\ needSel = <<>>
    /\ schoolCands = <<>>
    /\ allCands = <<>>
    /\ df = <<>>
    /\ outcome = "idle"
    /\ hist = HistInit(<<>>)
    /\ EnrichInit
    /\ CallInit

\* the runs of main() that start from a corrupt state file
SpecCorrupt == InitCorrupt /\ [][Next]_vars

\* the state after a run of the scraper that saved EnrichInput
InitEnrich ==
    /\ pc = "done"
    /\ run = MaxRuns
    /\ force = FALSE
    /\ state = <<>>
    /\ stateFile = <<>>
    /\ stateKind = "pages"
    /\ hasPages = TRUE
    /\ csvFile = EnrichInput
    /\ si = 1
    /\ ui = 1
    /\ needSel = <<>>
    /\ schoolCands = <<>>
    /\ allCands = <<>>
    /\ df = <<>>
    /\ outcome = "returned"
    /\ hist = HistInit(<<>>)
    /\ EnrichInit
    /\ CallInit

NextEnrich ==
    \/ StartPass
    \/ EnrichRow
    \/ Interrupt

\* the enrichment adapter, run on the table a scrape saved
SpecEnrich == InitEnrich /\ [][NextEnrich]_vars

-----------------------------------------------------------------------------
(* normalize_company called on its own *)

\* the number of successive applications of normalize_company the model follows
MaxApply == 2

\* company texts: the canonical names, the aliases, and names outside the table
NormWords ==
    {COMPANY_ALIASES[k].canonical : k \in DOMAIN COMPANY_ALIASES}
    \cup UNION {Range(COMPANY_ALIASES[k].aliases) : k \in DOMAIN COMPANY_ALIASES}
    \cup {"Facebook", "Facebook Inc", "FACEBOOK", "Meta Platforms Inc", "Twitter",
          "Square", "LinkedIn", "GitHub", "Stripe", "YouTube", "Waymo", "AWS",
          "Google DeepMind", "LinkedIn (Microsoft)", "Instagram", "WhatsApp", "x"}

\* the arguments of normalize_company: the company texts, bare, padded with blanks,
\* or inside a placement text; and the empty text
NormInputs ==
    {""} \cup {pre \o w \o suf : pre \in {"", "  ", "Senior Economist, "},
                                 w \in NormWords,
                                 suf \in {"", " ", " Research"}}

NormInit ==
    /\ ScrapeInit /\ EnrichInit
    /\ fn = "normalize_company"
    /\ arg \in NormInputs
    /\ out = <<>>

\* normalize_company applied to the argument, then to its own result
NormApply ==
    /\ fn = "normalize_company"
    /\ Len(out) < MaxApply
    /\ out' = Append(out, normalize_company(IF out = <<>> THEN arg ELSE out[Len(out)]))
    /\ UNCHANGED <<fn, arg, scrapeVars, enrichVars>>

\* normalize_company on every argument of NormInputs
SpecNorm == NormInit /\ [][NormApply]_vars

-----------------------------------------------------------------------------
(* The table strategies called on their own *)

\* the most data rows of a table
MaxTableRows == 2

\* the orders the three columns of a table may come in
ColumnOrders ==
    {o \in [1..3 -> {"name", "fields", "placement"}] : \A i, j \in 1..3 : o[i] = o[j] => i = j}

\* the header cell of a column
HeaderText == [name |-> "Student", fields |-> "Research Area", placement |-> "Placement"]

\* the people a table may list
TablePeople == {
    [name |-> "Jane Doe", fields |-> "Labor", placement |-> "Google"],
    [name |-> "Ann Lee", fields |-> "IO, Theory", placement |-> "Senior Economist, Amazon"],
    [name |-> "Bob Ray", fields |-> "", placement |-> "Stripe 2023"] }

\* the header cells a table may have: those of HeaderText, or with a placement header
\* or a name header that holds no keyword of the parsers
HeaderTexts == {
    HeaderText,
    [HeaderText EXCEPT !.placement = "Firm"],
    [HeaderText EXCEPT !.name = "Graduate"] }

\* the table element: the header row, then one row of td cells for each of the people
MakeTable(titles, order, people) ==
    <<[i \in 1..3 |-> titles[order[i]]]>>
    \o [r \in 1..Len(people) |-> [i \in 1..3 |-> people[r][order[i]]]]

\* the parsers whose table strategy the model holds
TableParsers == {"generic", "Harvard", "Yale"}

\* the table strategy of a parser on one table
parse_table_of(parser, table) ==
    CASE parser = "Harvard" -> Harvard_parse_table(table)
      [] parser = "Yale" -> Yale_parse_table(table)
      [] parser = "generic" -> parse_tables(Page(<<table>>, <<>>, <<>>), "Brown")

TableInit ==
    /\ ScrapeInit /\ EnrichInit
    /\ fn = "parse_table"
    /\ arg \in [parser : TableParsers, titles : HeaderTexts, order : ColumnOrders,
                 people : UNION {[1..n -> TablePeople] : n \in 1..MaxTableRows}]
    /\ out = <<>>

\* the table strategy applied to the table
TableApply ==
    /\ fn = "parse_table"
    /\ out = <<>>
    /\ out' = <<parse_table_of(arg.parser, MakeTable(arg.titles, arg.order, arg.people))>>
    /\ UNCHANGED <<fn, arg, scrapeVars, enrichVars>>

\* the table strategies on every table of TableInit
SpecTable == TableInit /\ [][TableApply]_vars

-----------------------------------------------------------------------------
(* parse_page called on its own *)

\* what soup.select('table') may find
ParseTables == {
    <<>>,
    << << <<"Name", "Placement">>, <<"John Smith", "Google">>,
          <<"Ann Lee", "Stripe">> >> >>,
    << << <<"Name", "Placement">>, <<"John Smith", "Google 2023">>,
          <<"JOHN SMITH ", "Assistant Professor, Yale">> >> >> }

\* what the card selectors may find
ParseCards == {
    <<>>,
    << [name |-> "John Smith", placement |-> "Amazon", fields |-> "IO",
        text |-> "John SmithAmazonIO"] >> }

\* what soup.select('h2, h3, h4, li, p') may find
ParseElems == {
    <<>>,
    <<"Class of 2024", "Kim Roe: Uber">>,
    <<"2023", "John Smith - Meta", "Kim Roe - Uber">>,
    <<"Class of 2024", "Jane Doe - Google, 2022 cohort", "Ann Lee - Stripe">> }

\* what Harvard's list-item selectors may find
ParseItems == { <<>>, <<"john smith - Airbnb">> }

\* the schools parse_page is called for: two with a registered parser, one without
ParseSchools == {"Harvard", "NYU", SCHOOLS[2].school}

ParseInit ==
    /\ ScrapeInit /\ EnrichInit
    /\ fn = "parse_page"
    /\ arg \in [school : ParseSchools,
                 doc : {[Page(t, c, e) EXCEPT !.items = it] :
                            t \in ParseTables, c \in ParseCards, e \in ParseElems,
                            it \in ParseItems}]
    /\ out = <<>>

\* parse_page(soup, school)
ParseApply ==
    /\ fn = "parse_page"
    /\ out = <<>>
    /\ out' = <<parse_page(arg.doc, arg.school)>>
    /\ UNCHANGED <<fn, arg, scrapeVars, enrichVars>>

\* parse_page on every page of ParseInit
SpecParse == ParseInit /\ [][ParseApply]_vars

-----------------------------------------------------------------------------
(* The free-text strategy of the PDF parser called on its own *)

\* the most lines of a text
MaxLines == 3

\* the lines a text may hold
PdfLines == {
    "Private Sector", "Academic Placements", "2023 - 2024",
    "Google (2) labor economics Jane Doe",
    "Amazon industrial organization Ann Lee",
    "Kim Roe - Uber" }

PdfInit ==
    /\ ScrapeInit /\ EnrichInit
    /\ fn = "parse_text"
    /\ arg \in UNION {[1..n -> PdfLines] : n \in 1..MaxLines}
    /\ out = <<>>

\* UChicagoPDFParser._parse_text(text)
PdfApply ==
    /\ fn = "parse_text"
    /\ out = <<>>
    /\ out' = <<PDF_parse_text(arg, "University of Chicago")>>
    /\ UNCHANGED <<fn, arg, scrapeVars, enrichVars>>

\* _parse_text on every text of PdfInit
SpecPdf == PdfInit /\ [][PdfApply]_vars

-----------------------------------------------------------------------------
(* fetch_page_selenium called on its own, one attempt at a time *)

SeleniumInit ==
    /\ ScrapeInit /\ EnrichInit
    /\ fn = "fetch_page_selenium"
    /\ arg \in URLS
    /\ out = <<>>

\* the next attempt of the call: out holds, for each attempt made, what it met and
\* what the call has returned after it
SeleniumAttempt ==
    /\ fn = "fetch_page_selenium"
    /\ IF out = <<>> THEN TRUE ELSE out[Len(out)].returned = "pending"
    /\ \E met \in SeleniumExceptions \cup {"SMALL"} \cup Serves(arg) :
          out' = Append(out, [met |-> met, returned |-> selenium_attempt(met, Len(out))])
    /\ UNCHANGED <<fn, arg, scrapeVars, enrichVars>>

\* fetch_page_selenium on every url, over all the ways its attempts may go
SpecSelenium == SeleniumInit /\ [][SeleniumAttempt]_vars

-----------------------------------------------------------------------------
(* The tech filters called on their own *)

\* parsers.base.TECH_COMPANIES
BASE_TECH_COMPANIES == {
    "google", "meta", "facebook", "amazon", "apple", "microsoft", "netflix",
    "uber", "lyft", "airbnb", "stripe", "doordash", "instacart", "dropbox",
    "slack", "zoom", "spotify", "pinterest", "snap", "snapchat", "twitter", "x corp",
    "tiktok", "bytedance", "reddit", "discord", "nextdoor", "thumbtack", "turo",
    "openai", "anthropic", "deepmind", "cohere", "stability ai", "midjourney",
    "hugging face", "scale ai", "databricks", "perplexity", "xai", "groq",
    "codeium", "cursor", "anysphere", "writer", "elevenlabs", "harvey",
    "cognition", "character ai", "inflection",
    "robinhood", "coinbase", "plaid", "square", "block", "affirm", "chime",
    "sofi", "brex", "ripple", "kraken", "toast", "marqeta", "klarna", "revolut",
    "two sigma", "jane street", "citadel", "de shaw", "d.e. shaw", "renaissance",
    "aqr", "point72", "bridgewater", "millennium", "tower research", "hrt",
    "jump trading", "virtu", "susquehanna", "sig", "squarepoint", "rokos",
    "salesforce", "oracle", "sap", "vmware", "snowflake", "palantir",
    "servicenow", "workday", "splunk", "crowdstrike", "datadog",
    "deel", "remote", "rippling", "gusto", "qualtrics", "amplitude",
    "shopify", "ebay", "wayfair", "etsy", "walmart", "flexport", "faire",
    "nvidia", "intel", "amd", "qualcomm", "tesla", "spacex",
    "zillow", "redfin", "opendoor", "compass", "houzz", "corelogic", "realtor.com",
    "booking", "expedia", "tripadvisor", "navan", "tripactions", "hopper", "kayak",
    "capital one", "goldman sachs", "jpmorgan", "citi", "blackrock", "vanguard",
    "mckinsey", "bain", "bcg", "analysis group", "cornerstone", "nera",
    "linkedin", "indeed", "glassdoor", "yelp", "doximity", "veeva",
    "twilio", "okta", "cloudflare", "mongodb", "elastic", "ibm", "boeing", "huawei",
    "asana", "notion", "figma", "canva", "airtable",
    "grammarly", "duolingo", "coursera", "udemy", "pandora",
    "roblox", "epic games", "unity", "activision", "electronic arts", "adobe" }

\* SchoolParser._is_tech_placement(placement)
base_is_tech_placement(placement) ==
    /\ placement # ""
    /\ \E company \in BASE_TECH_COMPANIES : Contains(Lower(placement), company)

\* the placement texts the filters are called on: every employer of the two lists, on
\* its own and after a role
TechInit ==
    /\ ScrapeInit /\ EnrichInit
    /\ fn = "is_tech_placement"
    /\ arg \in {pre \o Title(company) :
                   pre \in {"", "Economist, "},
                   company \in BASE_TECH_COMPANIES \cup TECH_COMPANIES}
    /\ out = <<>>

\* the parsers' filter and the orchestrator's filter on the placement, and the
\* orchestrator's filter on the normalized placement
TechApply ==
    /\ fn = "is_tech_placement"
    /\ out = <<>>
    /\ out' = <<[parser |-> base_is_tech_placement(arg),
                 orchestrator |-> is_tech_placement(arg),
                 normalized |-> normalize_company(arg),
                 after |-> is_tech_placement(normalize_company(arg))]>>
    /\ UNCHANGED <<fn, arg, scrapeVars, enrichVars>>

\* the filters on every placement of TechInit
SpecTech == TechInit /\ [][TechApply]_vars

-----------------------------------------------------------------------------
(* extract_year called on its own *)

\* the texts extract_year is called on: a number, bare or after a word or inside a
\* longer run of digits
YearInit ==
    /\ ScrapeInit /\ EnrichInit
    /\ fn = "extract_year"
    /\ arg \in {pre \o num \o suf :
                   pre \in {"", "Class of ", "Room ", "Tel 617"},
                   num \in {"1999", "2014", "2015", "2019", "2020", "2023", "2025", "2026",
                            "202"},
                   suf \in {"", " Google", "5", "-2021"}}
    /\ out = <<>>

\* EconPhDScraper.extract_year(text) and PDFPlacementParser._extract_year(text)
YearApply ==
    /\ fn = "extract_year"
    /\ out = <<>>
    /\ out' = <<extract_year(arg), PDF_extract_year(arg)>>
    /\ UNCHANGED <<fn, arg, scrapeVars, enrichVars>>

\* extract_year on every text of YearInit
SpecYear == YearInit /\ [][YearApply]_vars

\* PennParser._is_tech_placement(placement): the exclusions, then the base list
Penn_is_tech_placement(placement) ==
    IF placement = "" THEN FALSE
    ELSE IF \E ex \in {"university", "college", "professor", "postdoc", "faculty",
                       "school of"} : Contains(Lower(placement), ex)
    THEN FALSE
    ELSE \E company \in BASE_TECH_COMPANIES : Contains(Lower(placement), company)

\* PennParser._normalize_placement(placement): the first matching key of the
\* dictionary in its order, else the stripped text
Penn_normalize_placement(placement) ==
    LET lower == Lower(placement)
    IN  IF Contains(lower, "amazon") THEN "Amazon"
        ELSE IF Contains(lower, "google") THEN "Google"
        ELSE IF Contains(lower, "meta") THEN "Meta"
        ELSE IF Contains(lower, "facebook") THEN "Meta"
        ELSE IF Contains(lower, "openai") THEN "OpenAI"
        ELSE IF Contains(lower, "microsoft") THEN "Microsoft"
        ELSE IF Contains(lower, "uber") THEN "Uber"
        ELSE IF Contains(lower, "two sigma") THEN "Two Sigma"
        ELSE IF Contains(lower, "jane street") THEN "Jane Street"
        ELSE IF Contains(lower, "citadel") THEN "Citadel"
        ELSE IF Contains(lower, "vanguard") THEN "Vanguard"
        ELSE IF Contains(lower, "blackrock") THEN "BlackRock"
        ELSE Strip(placement)

\* the texts that ^20(2[0-5]|1[5-9])$ matches, with their values
WhartonYears ==
    [t \in {"2015", "2016", "2017", "2018", "2019", "2020", "2021", "2022", "2023",
            "2024", "2025"} |->
        CHOOSE y \in 2015..2025 : ToString(y) = t]

\* the loop of PennParser._parse_wharton over the texts of the h2, h3, h4, p,
\* li and strong elements from position k on, with current_year (0 for None),
\* current_program, seen_names and the candidates so far
RECURSIVE Penn_parse_wharton(_, _, _, _, _, _)
Penn_parse_wharton(elems, k, current_year, current_program, seen_names, candidates) ==
    IF k > Len(elems) THEN candidates
    ELSE LET text == Strip(elems[k])
         IN  IF \E prog \in {"statistics", "finance", "economics", "applied economics"} :
                    Contains(Lower(text), prog)
             THEN Penn_parse_wharton(elems, k + 1, current_year, text, seen_names,
                                     candidates)
             ELSE IF text \in DOMAIN WhartonYears
             THEN Penn_parse_wharton(elems, k + 1, WhartonYears[text], current_program,
                                     seen_names, candidates)
             ELSE IF Penn_is_tech_placement(text)
                     /\ Lower(Penn_normalize_placement(text)) \notin seen_names
             THEN LET year == IF current_year # 0 THEN current_year ELSE 2024
                  IN  Penn_parse_wharton(elems, k + 1, current_year, current_program,
                          seen_names \cup {Lower(Penn_normalize_placement(text))},
                          Append(candidates,
                                 Cand("Wharton PhD (" \o ToString(year) \o ")",
                                      "University of Pennsylvania", year,
                                      current_program,
                                      Penn_normalize_placement(text))))
             ELSE Penn_parse_wharton(elems, k + 1, current_year, current_program,
                                     seen_names, candidates)

\* the longest Wharton page
MaxElems == 3

\* the Wharton pages of at most MaxElems h2, h3, h4, p, li or strong elements
WhartonInit ==
    /\ ScrapeInit /\ EnrichInit
    /\ fn = "_parse_wharton"
    /\ arg \in UNION {[1..n -> {"Applied Economics", "2024", "2023", "Google",
                                "Amazon Web Services", "Uber"}] : n \in 0..MaxElems}
    /\ out = <<>>

\* the records the Wharton strategy emits for the page, and what scrape_school's
\* tech filter and scrape_all's dedup on (name, school) leave of them
WhartonApply ==
    /\ fn = "_parse_wharton"
    /\ out = <<>>
    /\ out' = <<Penn_parse_wharton(arg, 1, 0, "", {}, <<>>),
                drop_duplicates(tech_candidates(
                    Penn_parse_wharton(arg, 1, 0, "", {}, <<>>)))>>
    /\ UNCHANGED <<fn, arg, scrapeVars, enrichVars>>

\* the Wharton strategy and the orchestrator's table on every page of WhartonInit
SpecWharton == WhartonInit /\ [][WhartonApply]_vars

-----------------------------------------------------------------------------
(* Properties of the orchestrator *)

\* the records a parsed page contributes to the output of its school
TechOf(u, d) == Range(tech_candidates(parse_page(Docs[d], SchoolOf(u))))

\* every tech record of every page parsed in this run has its (name, school) in df
ParsedRecordsReturned ==
    \A ud \in hist.parsed : \A c \in TechOf(ud[1], ud[2]) :
        \E k \in 1..Len(df) : df[k].name = c.name /\ df[k].school = c.school

\* C1: a failed fetch does not make scrape_all raise (only a parser exception does);
\* when a run with a failed fetch and no parser exception has ended, scrape_all has
\* returned, the failing url was reported, and the records of the pages of the other
\* sources are in the returned table.
C1_FetchFailureIsolated ==
    /\ outcome = "raised" => hist.raisedAt # {}
    /\ (pc = "done" /\ hist.failed # {} /\ hist.raisedAt = {}) =>
          /\ outcome = "returned"
          /\ hist.failed \subseteq hist.reported
          /\ ParsedRecordsReturned

\* a run has ended in which every fetch of one source failed and another source's
\* page was parsed and gave records
C1_Witness ==
    /\ pc = "done"
    /\ outcome = "returned"
    /\ SCHOOLS[2].urls[1] \in hist.failed
    /\ \A ud \in hist.fetched : ud[1] # SCHOOLS[2].urls[1]
    /\ <<SCHOOLS[1].urls[1], "HP1">> \in hist.parsed
    /\ \E k \in 1..Len(df) : df[k].name = "John Smith" /\ df[k].school = "Harvard"

\* C2: when the parser raised on one source's page, the run still ends with scrape_all
\* returning the records of the other sources.
C2_ParserExceptionIsolated ==
    (pc = "done" /\ hist.raisedAt # {}) =>
        /\ outcome = "returned"
        /\ ParsedRecordsReturned

\* C3: without force, a url that was skipped because its content hash equals the stored
\* one is not handed to a parser in the run; with force every fetched page is handed
\* to a parser.
C3_UnchangedNotParsed ==
    /\ ~force => \A ud \in hist.handed : ud[1] \notin hist.skipped
    /\ force => hist.fetched \subseteq hist.handed

\* C4: the persisted hash of a url differs from the one persisted before the run only
\* if the url's content with that hash was parsed successfully in the run.
C4_StateOnlyCompleted ==
    \A u \in URLS :
        old_hash_of(stateFile, u) # old_hash_of(hist.atStart, u) =>
            \E ud \in hist.parsed :
                ud[1] = u /\ hash_content(ud[2]) = old_hash_of(stateFile, u)

\* C5: the returned table has no two rows with the same (name, school), and every
\* (name, school) found by the schools' scrapes is in it, so a name found at two
\* schools is there twice.
C5_DedupByNameSchool ==
    outcome = "returned" =>
        /\ \A i, j \in 1..Len(df) :
              (df[i].name = df[j].name /\ df[i].school = df[j].school) => i = j
        /\ \A c \in Range(allCands) :
              \E k \in 1..Len(df) : df[k].name = c.name /\ df[k].school = c.school

\* a returned table in which a duplicate of one school was collapsed and a name is
\* present for two schools
C5_Witness ==
    /\ outcome = "returned"
    /\ \E i, j \in 1..Len(allCands) :
          /\ i # j
          /\ allCands[i].name = allCands[j].name
          /\ allCands[i].school = allCands[j].school
    /\ \E i, j \in 1..Len(df) : df[i].name = df[j].name /\ df[i].school # df[j].school

C7_NamesValid ==
    outcome = "returned" => \A k \in 1..Len(df) : is_valid_name(df[k].name)

\* C8: a run that parsed the fixture table and nothing else saves exactly one record,
\* Alice Kim with placement Amazon.
C8_FixtureYieldsAlice ==
    (pc = "done" /\ outcome = "returned"
       /\ hist.parsed = {<<SCHOOLS[2].urls[1], "WFIX">>}) =>
        /\ Len(csvFile) = 1
        /\ csvFile[1].name = "Alice Kim"
        /\ csvFile[1].initial_placement = "Amazon"

-----------------------------------------------------------------------------
(* Properties of the enrichment adapter *)

\* the row bears a real current_role: a text that is no placeholder
HasRealRole(row) ==
    /\ row["current_role"].t = "str"
    /\ Strip(row["current_role"].v) \notin {"", "Unknown", "0"}

\* the row bears a real work_focus
HasRealWorkFocus(row) ==
    /\ row["work_focus"].t = "str"
    /\ Strip(row["work_focus"].v) \notin {"", "Unknown", "0"}

\* the lookup was not invoked for row i in this pass and the row is as it was loaded
LeftAlone(i) == i \notin ehist.calls /\ erows[i] = ehist.atLoad[i]

\* a forced pass that has ended invoked the lookup for every row
ForcedPassCallsAll ==
    (eforce /\ epc = "done") => ehist.calls = 1..Len(erows)

IsFailurePlaceholder(row) ==
    /\ py_str(row["current_role"]) = "Unknown"
    /\ StartsWith(py_str(row["notes"]), "Error:")

\* C10: a row whose lookup failed is stored, in the table and in the file, with
\* current_role "Unknown" and a note tagged "Error:"; the pass goes on to the end
\* over every row; and a later pass without force looks every such row up again.
C10_FailureStoredAndRetried ==
    /\ \A i \in ehist.failed :
          /\ IsFailurePlaceholder(erows[i])
          /\ eoutExists
          /\ eout[i]["current_role"] = "Unknown"
          /\ StartsWith(eout[i]["notes"], "Error:")
    /\ epc = "done" => ehist.calls \cup ehist.skipped = 1..Len(erows)
    /\ ~eforce => \A i \in 1..Len(ehist.atLoad) :
                      (IsFailurePlaceholder(ehist.atLoad[i]) /\ eidx > i) =>
                          i \in ehist.calls

\* a pass without force has ended in which a row stored by a failed lookup of an
\* earlier pass was looked up again, failed again, and a later row was looked up
C10_Witness ==
    /\ ~eforce /\ epc = "done" /\ epass >= 2
    /\ \E i, j \in 1..Len(erows) :
          /\ i < j
          /\ IsFailurePlaceholder(ehist.atLoad[i])
          /\ i \in ehist.failed
          /\ j \in ehist.calls

\* every row looked up in this pass is in the file with the values the table holds
LookedUpRowsPersisted ==
    \A i \in ehist.calls :
        /\ eoutExists
        /\ \A c \in NEW_COLS : eout[i][c] = erows[i][c].v

OTHER_FIELDS ==
    {"current_role", "current_company", "team", "notes", "linkedin_url",
     "citations", "h_index"}

\* C12: in a work-focus pass without force, a row that bears a real current_role and no
\* real work_focus is not given the full lookup, and its enrichment fields other than
\* work_focus stay as they were loaded.
C12_WorkFocusBackfillOnly ==
    (ewf /\ ~eforce) =>
        \A i \in 1..Len(ehist.atLoad) :
            (HasRealRole(ehist.atLoad[i]) /\ ~HasRealWorkFocus(ehist.atLoad[i])) =>
                /\ i \notin ehist.calls
                /\ \A c \in OTHER_FIELDS : erows[i][c] = ehist.atLoad[i][c]

-----------------------------------------------------------------------------
(* Properties of normalize_company *)

\* C13: normalize_company applied to its own result gives that result again, and
\* every canonical name of COMPANY_ALIASES is its own result.
C13_NormalizeIdempotent ==
    /\ \A i \in 2..Len(out) : out[i] = out[1]
    /\ (Len(out) >= 1
          /\ \E k \in DOMAIN COMPANY_ALIASES : arg = COMPANY_ALIASES[k].canonical) =>
           out[1] = arg

\* normalize_company was applied twice, starting from a text it changes
C13_Witness ==
    /\ fn = "normalize_company"
    /\ arg = "  Facebook Inc Research"
    /\ Len(out) = 2
    /\ out[1] = "Meta"

\* C14: normalize_company gives Meta for "Facebook" and "Facebook Inc", X for "Twitter"
\* and Block for "Square"; and it folds no subsidiary into its parent: a text naming
\* DeepMind gives DeepMind, and a text naming LinkedIn still names LinkedIn.
C14_AliasesRebrandingsOnly ==
    Len(out) >= 1 =>
        /\ arg \in {"Facebook", "Facebook Inc"} => out[1] = "Meta"
        /\ arg = "Twitter" => out[1] = "X"
        /\ arg = "Square" => out[1] = "Block"
        /\ Contains(Lower(arg), "deepmind") => out[1] = "DeepMind"
        /\ Contains(Lower(arg), "linkedin") => Contains(out[1], "LinkedIn")

-----------------------------------------------------------------------------
(* Properties of the persisted state *)

\* C15: starting from a corrupt state file, no exception leaves the constructor or
\* scrape_all unless a parser raised, and the first run starts from the empty state
\* and skips no url as unchanged.
C15_CorruptStateNotFatal ==
    /\ outcome = "raised" => hist.raisedAt # {}
    /\ run = 1 => (hist.atStart = <<>> /\ hist.skipped = {})

-----------------------------------------------------------------------------
(* Properties of the source parsers *)

\* the parse gave one record for each of the people, in their order, with the name,
\* the research fields and the placement of each
RecordsMatchPeople ==
    /\ Len(out[1]) = Len(arg.people)
    /\ \A k \in 1..Len(arg.people) :
          /\ out[1][k].name = arg.people[k].name
          /\ out[1][k].research_fields = arg.people[k].fields
          /\ out[1][k].initial_placement = arg.people[k].placement

C17_CustomParserElseFallback ==
    (fn = "parse_page" /\ out # <<>>) =>
        IF arg.school \in CUSTOM_PARSERS /\ custom_parse(arg.doc, arg.school) # <<>>
        THEN out[1] = custom_parse(arg.doc, arg.school)
        ELSE out[1] = generic_parse(arg.doc, arg.school)

\* parse_page fell back for Harvard on a page that only the generic strategies read
C17_Witness ==
    /\ fn = "parse_page" /\ out # <<>>
    /\ arg.school = "Harvard"
    /\ custom_parse(arg.doc, "Harvard") = <<>>
    /\ Len(out[1]) = 2
    /\ out[1][1].name = "John Smith" /\ out[1][1].initial_placement = "Meta"

\* the names of a list, lowercased and trimmed, are all different
DistinctNames(cs) ==
    \A i, j \in 1..Len(cs) : Lower(Strip(cs[i].name)) = Lower(Strip(cs[j].name)) => i = j

\* C19: the list one parse call returns holds no two records of the same name
\* (lowercased, trimmed).
C19_NoDuplicateNamesPerParse ==
    (fn = "parse_page" /\ out # <<>>) => DistinctNames(out[1])

RECURSIVE InsideOnly(_, _, _)
\* the text with every entry line outside the private-sector section made blank
\* (line i on, in_private_sector as the first loop of _parse_text has it there)
InsideOnly(lines, i, in_private_sector) ==
    IF i > Len(lines) THEN <<>>
    ELSE LET kind == IF Strip(lines[i]) = "" THEN "blank"
                     ELSE PDF_line_kind(Strip(lines[i]))
         IN  CASE kind = "private" -> <<lines[i]>> \o InsideOnly(lines, i + 1, TRUE)
               [] kind = "other" -> <<lines[i]>> \o InsideOnly(lines, i + 1, FALSE)
               [] kind = "entry" /\ ~in_private_sector ->
                      <<"">> \o InsideOnly(lines, i + 1, in_private_sector)
               [] OTHER -> <<lines[i]>> \o InsideOnly(lines, i + 1, in_private_sector)

\* C18: a line outside the private-sector section yields no record: the text parses
\* to what it parses to with those lines blank.
C18_OutsidePrivateSectorNothing ==
    (fn = "parse_text" /\ out # <<>>) =>
        out[1] = PDF_parse_text(InsideOnly(arg, 1, FALSE), "University of Chicago")

\* the attempt read no page of enough content
AttemptFailed(a) == a.met \in SeleniumExceptions \/ Docs[a.met].small

\* C20: the Selenium fetch of a url makes at most max_retries (3) attempts, has
\* returned after the last of them, and returns None, never an exception, when every
\* attempt failed or read a too-small page.
C20_SeleniumBoundedAttempts ==
    fn = "fetch_page_selenium" =>
        /\ Len(out) <= max_retries
        /\ Len(out) = max_retries => out[Len(out)].returned # "pending"
        /\ \A k \in 1..Len(out) :
              /\ out[k].returned \in {"pending", "None"} \cup DocIds
              /\ out[k].returned = "pending" => k < max_retries
              /\ (k = max_retries /\ \A j \in 1..k : AttemptFailed(out[j]))
                     => out[k].returned = "None"
              /\ out[k].returned # "pending" =>
                     out[k].returned =
                         fetch_page_selenium([j \in 1..max_retries |->
                             IF j <= k THEN out[j].met ELSE "WebDriverException"])

\* three attempts failed, one by an exception of the driver, one on a too-small page,
\* one by a timeout, and the call returned None
C20_Witness ==
    /\ fn = "fetch_page_selenium"
    /\ Len(out) = max_retries
    /\ out[1].met = "WebDriverException"
    /\ out[2].met = "SMALL"
    /\ out[3].met = "TimeoutException"
    /\ out[3].returned = "None"

-----------------------------------------------------------------------------
(* Properties of the enrichment adapter and of the pure functions *)

\* what the contract of the adapter stores for a returned company
ExpectedCompany(raw) == IF is_academia(raw) THEN "Academia" ELSE normalize_company(raw)

\* C21: after a record is enriched, its current_company, in the table and in the saved
\* file, is "Academia" when the company the lookup returned is academia and
\* normalize_company of it otherwise.
C21_CurrentCompanyStandardized ==
    \A k \in ehist.calls :
        /\ erows[k]["current_company"] = Str(ExpectedCompany(ehist.raw[k]))
        /\ eout[k]["current_company"] = ExpectedCompany(ehist.raw[k])

\* a pass stored Academia for a returned university and Meta for a returned Facebook
C21_Witness ==
    /\ ehist.calls = {1, 2}
    /\ ehist.raw[1] = "Yale University" /\ eout[1]["current_company"] = "Academia"
    /\ ehist.raw[2] = "Facebook" /\ eout[2]["current_company"] = "Meta"

\* the header-reading table strategies
HeaderParsers == {"Harvard", "Yale"}

\* C22: when no header cell matches the placement keywords the placement of every
\* record is the last cell of its row, and when none matches the name keywords the
\* name of every record is the first cell of a row.
C22_PositionalDefaults ==
    (fn = "parse_table" /\ out # <<>> /\ arg.parser \in HeaderParsers) =>
        /\ arg.titles.placement = "Firm" =>
              /\ Len(out[1]) = Len(arg.people)
              /\ \A k \in 1..Len(arg.people) :
                    out[1][k].initial_placement = arg.people[k][arg.order[3]]
        /\ arg.titles.name = "Graduate" =>
              \A k \in 1..Len(out[1]) :
                  \E r \in 1..Len(arg.people) : out[1][k].name = arg.people[r][arg.order[1]]

\* C23: a placement the parsers' own tech filter accepts is accepted by the
\* orchestrator's filter.
C23_ParserTechIsOrchestratorTech ==
    (fn = "is_tech_placement" /\ out # <<>>) => (out[1].parser => out[1].orchestrator)

\* C27: a placement that passes the tech filter passes it after normalize_company.
C27_NormalizationKeepsTech ==
    (fn = "is_tech_placement" /\ out # <<>>) => (out[1].orchestrator => out[1].after)

\* the element is a year header of the year-section strategy: a short text with a year
IsYearHeader(text) == extract_year(Strip(text)) # 0 /\ Len(Strip(text)) < 20

\* the year of the last year header before element i, 0 when there is none
CarriedYear(elems, i) ==
    LET hs == {j \in 1..(i - 1) : IsYearHeader(elems[j])}
    IN  IF hs = {} THEN 0 ELSE extract_year(elems[CHOOSE j \in hs : \A h \in hs : j >= h])

\* C24: in the year-section strategy a record carries the year of the last header before
\* its line, unless the line itself holds a year, which it then carries.
C24_YearCarriedUnlessOwn ==
    (/\ fn = "parse_page" /\ out # <<>>
     /\ arg.doc.tables = <<>> /\ arg.doc.cards = <<>> /\ arg.doc.items = <<>>) =>
        \A k \in 1..Len(out[1]) :
            \E i \in 1..Len(arg.doc.elems) :
                LET line == arg.doc.elems[i] IN
                /\ ~IsYearHeader(line)
                /\ StartsWith(line, out[1][k].name)
                /\ out[1][k].graduation_year =
                       IF extract_year(line) # 0 THEN extract_year(line)
                       ELSE CarriedYear(arg.doc.elems, i)

\* a number of exactly four digits starts at position i of the text
FourDigitNumberAt(text, i) ==
    /\ i + 3 <= Len(text)
    /\ \A j \in i..(i + 3) : IsDigit(SubSeq(text, j, j))
    /\ i = 1 \/ ~IsDigit(SubSeq(text, i - 1, i - 1))
    /\ i + 3 = Len(text) \/ ~IsDigit(SubSeq(text, i + 4, i + 4))

\* the value of the four digits at position i
FourDigitValue(text, i) ==
    1000 * DigitVal(SubSeq(text, i, i)) + 100 * DigitVal(SubSeq(text, i + 1, i + 1))
    + 10 * DigitVal(SubSeq(text, i + 2, i + 2)) + DigitVal(SubSeq(text, i + 3, i + 3))

\* the first four-digit number of the text that lies in lo..hi, 0 when there is none
FirstYearIn(text, lo, hi) ==
    LET at == {i \in 1..Len(text) :
                  /\ FourDigitNumberAt(text, i)
                  /\ FourDigitValue(text, i) >= lo /\ FourDigitValue(text, i) <= hi}
    IN  IF at = {} THEN 0
        ELSE FourDigitValue(text, CHOOSE i \in at : \A j \in at : i <= j)

\* C25: extract_year returns the first four-digit year of the text inside the window
\* (2020-2025 in the scraper, 2015-2025 in the PDF parser), none when there is none,
\* and nothing taken from digits of a longer number.
C25_ExtractYearFirstInWindow ==
    (fn = "extract_year" /\ out # <<>>) =>
        /\ out[1] = FirstYearIn(arg, 2020, 2025)
        /\ out[2] = FirstYearIn(arg, 2015, 2025)

\* the cell holds no real value: missing, empty, "Unknown" or "0"
IsPlaceholderCell(x) == x = NaN \/ Strip(py_str(x)) \in {"", "Unknown", "0"}

\* the row has no real enrichment: no role, and no note or the note of a failure
NoRealEnrichment(row) ==
    /\ IsPlaceholderCell(row["current_role"])
    /\ \/ IsPlaceholderCell(row["notes"])
       \/ StartsWith(Strip(py_str(row["notes"])), "Error:")

\* C26: a pass without force that resumes an interrupted one skips no row that has no
\* real enrichment: the lookup is invoked for every row left unprocessed.
C26_UnprocessedRowsLookedUp ==
    (ehist.resumed /\ ~eforce) =>
        \A k \in ehist.skipped : ~NoRealEnrichment(ehist.atLoad[k])

\* the saved table holds a record of the name and school
InTable(table, name, school) ==
    \E r \in 1..Len(table) : table[r].name = name /\ table[r].school = school

\* C28: a run without force removes from the saved table no record of a url that it
\* skipped as unchanged: the records that url's stored content yields stay saved.
C28_SkippedUrlRecordsKept ==
    [][\A u \in hist.skipped, d \in DocIds :
          old_hash_of(hist.atStart, u) = hash_content(d) =>
              \A c \in TechOf(u, d) :
                  InTable(csvFile, c.name, c.school) => InTable(csvFile', c.name, c.school)]_vars

\* C29: every distinct tech employer that the Wharton strategy emits for a year
\* is a record of the orchestrator's table after the tech filter and the
\* (name, school) dedup
C29_WhartonEmployersKept ==
    (fn = "_parse_wharton" /\ out # <<>>) =>
        \A k \in 1..Len(out[1]) :
            \E j \in 1..Len(out[2]) :
                /\ out[2][j].initial_placement = out[1][k].initial_placement
                /\ out[2][j].graduation_year = out[1][k].graduation_year

\* C30: after a run completes, every url whose content was fetched and parsed
\* in that run, by the plain fetch or by the Selenium fetch, has an entry of this
\* run in the persisted extraction state, with the hash of a content parsed
C30_ParsedUrlsInState ==
    (pc = "done" /\ outcome = "returned") =>
        \A ud \in hist.parsed :
            /\ ud[1] \in DOMAIN stateFile
            /\ stateFile[ud[1]].last_scraped = run
            /\ \E vd \in hist.parsed :
                   /\ vd[1] = ud[1]
                   /\ stateFile[ud[1]].hash = hash_content(vd[2])

====
